---------------------------- MODULE Spec2Model ----------------------------
(***************************************************************************)
(* Session and resilience layer of the booking assistant:                  *)
(* src/src/services/browser_service.py, class BrowserService.              *)
(*                                                                         *)
(* The service is a process-wide singleton driven by cooperative asyncio   *)
(* tasks.  Control passes between tasks only at an await that suspends, so *)
(* every action below is the code that runs between two suspension points. *)
(*                                                                         *)
(* Time.  The code stores time.time() stamps and only ever reads them as   *)
(* differences `time.time() - stamp`.  The model stores that difference    *)
(* (the age of the stamp, in seconds): a stamp just taken has age 0, Tick  *)
(* adds the keep-alive period (300 s) to every age, and an age stops       *)
(* growing once it is past the threshold it is compared with.  300 s is    *)
(* the coarsest grain at which the timers of the class (300 s keep-alive,  *)
(* 300 s cooldowns, 1800 s inactivity timeout) are exact; the 60 s sleep   *)
(* of the sweep is finer, so a sweep pass may happen at any moment and     *)
(* has happened before the next 300 s are over.                            *)
(*                                                                         *)
(* Browser objects.  A Browser is known by its identity among the objects  *)
(* of its user that are still open, closing or referred to; as in Python,  *)
(* the identity of an object nothing refers to any more may be given to a  *)
(* later object.  A user's map entry only ever holds that user's objects.  *)
(*                                                                         *)
(* Environment.  `env` is fixed at Init and names the inputs the           *)
(* collaborators may produce in a specification: which users call, which   *)
(* outcome classes agent.run has, which result shapes, whether the Browser *)
(* constructor may raise.                                                  *)
(***************************************************************************)
EXTENDS Integers, Sequences, FiniteSets, TLC

\* ------------------------------------------------------------------ bounds
MaxCalls == 3
MaxAdminOps == 2

\* ------------------------------------------------------- program constants
inactivity_timeout == 1800
anthropic_circuit_reset_after == 300
anthropic_failure_threshold == 3
circuit_reset_threshold == 3
circuit_cooldown_period == 300
keep_alive_period == 300
MAX_RETRIES == 3

Users == {1, 2}

\* Python's None, for a browser entry and for a timestamp.
NoBrowser == 0
NoTime == -1

\* ------------------------------------------------- dict (insertion-ordered)
\* A Python dict is a sequence of <<key, value>> pairs in insertion order.
Keys(d) == {d[i][1] : i \in DOMAIN d}

Has(d, k) == k \in Keys(d)

Get(d, k) == d[CHOOSE i \in DOMAIN d : d[i][1] = k][2]

Put(d, k, v) ==
    IF Has(d, k)
    THEN [i \in DOMAIN d |-> IF d[i][1] = k THEN <<k, v>> ELSE d[i]]
    ELSE Append(d, <<k, v>>)

\* Mutation of Del: the deletion of one key empties the dict.
DelEveryKey(d, k) == <<>>

\* `del d[k]`
Del(d, k) == SelectSeq(d, LAMBDA e : e[1] # k)

VARIABLES
    env,                        \* the inputs of this specification (never changes)
    browsers,                   \* _browsers: user_id -> handle or NoBrowser
    handles,                    \* per user: the Browser objects open and closing
    last_activity_times,        \* _last_activity_times: user_id -> age of the stamp
    current_contexts,           \* _current_contexts
    inactivity_check_running,   \* _inactivity_check_running
    anthropic_failures,
    anthropic_circuit_open,
    anthropic_circuit_open_time,    \* age of the stamp, or NoTime
    circuit_open,
    circuit_open_time,              \* age of the stamp, or NoTime
    circuit_failure_count,
    pc,                         \* per user: where its execute_search call is suspended
    retries,                    \* per user: local `retries`
    result,                     \* per user: local `result`, then the value returned
    agent_browser,              \* per user: handle given to the Agent of the running dispatch
    keep_alive,                 \* per user: time left until the keep-alive task's next refresh
    awaited_close,              \* per user: handle whose close the call itself awaits
    served,                     \* per user: handle of its latest dispatch, if that succeeded
    dispatches,                 \* per user: agent.run calls started so far by its call
    init_failed,                \* per user: initialize_browser has raised in its call
    calls,                      \* number of execute_search calls started
    sweep,                      \* the _check_inactivity task
    admin,                      \* an external task running cleanup / force_close_browser
    admin_ops,                  \* number of external operations invoked so far
    op_result,                  \* the latest external operation to end, and how it ended
    calc                        \* a call of a function without side effects: inputs and value

vars == <<env, browsers, handles, last_activity_times, current_contexts,
          inactivity_check_running, anthropic_failures, anthropic_circuit_open,
          anthropic_circuit_open_time, circuit_open, circuit_open_time,
          circuit_failure_count, pc, retries, result, agent_browser, keep_alive,
          awaited_close, served, dispatches, init_failed, calls, sweep, admin,
          admin_ops, op_result, calc>>

\* What no step of the service changes: the inputs of the specification and
\* the record of a side-effect-free call.
fixed == <<env, calc>>

breakerVars == <<anthropic_failures, anthropic_circuit_open, anthropic_circuit_open_time,
                 circuit_open, circuit_open_time, circuit_failure_count>>

sessionVars == <<browsers, handles, last_activity_times, current_contexts>>

callVars == <<pc, retries, result, agent_browser, keep_alive, awaited_close, served,
              dispatches, init_failed, calls>>

SweepIdle(at) == [pc |-> at, user |-> 0, h |-> NoBrowser, todo |-> <<>>]

AdminIdle == [op |-> "none", user |-> 0, h |-> NoBrowser, todo |-> <<>>]

\* What the caller of an external operation sees when it is over: which
\* operation, for which user (0: all users), how it ended ("returned" or
\* "raised"; "pending" while initialize_browser is past its pre-close and not
\* yet over), and how the last browser.close() it awaited ended ("none": it
\* awaited no close).
NoOp == [op |-> "none", user |-> 0, status |-> "none", close |-> "none"]

\* ------------------------------------------------------------------- Init
\* The class attributes (25-45) of the singleton before any call.
\* No side-effect-free call is on record.
NoCalc == [fn |-> "none"]

Construction(e) ==
    /\ env = e
    /\ browsers = <<>>
    /\ handles = [u \in Users |-> [open |-> {}, closing |-> {}]]
    /\ last_activity_times = <<>>
    /\ current_contexts = <<>>
    /\ inactivity_check_running = FALSE
    /\ anthropic_failures = 0
    /\ anthropic_circuit_open = FALSE
    /\ anthropic_circuit_open_time = NoTime
    /\ circuit_open = FALSE
    /\ circuit_open_time = NoTime
    /\ circuit_failure_count = 0
    /\ pc = [u \in Users |-> "idle"]
    /\ retries = [u \in Users |-> 0]
    /\ result = [u \in Users |-> "none"]
    /\ agent_browser = [u \in Users |-> NoBrowser]
    /\ keep_alive = [u \in Users |-> NoTime]
    /\ awaited_close = [u \in Users |-> NoBrowser]
    /\ served = [u \in Users |-> NoBrowser]
    /\ dispatches = [u \in Users |-> 0]
    /\ init_failed = [u \in Users |-> FALSE]
    /\ calls = 0
    /\ sweep = SweepIdle("off")
    /\ admin = AdminIdle
    /\ admin_ops = 0
    /\ op_result = NoOp

Start(e) == Construction(e) /\ calc = NoCalc

\* ---------------------------------------------------------------- helpers
\* `user_id in self._browsers and self._browsers[user_id] is not None`
HasBrowser(u) == Has(browsers, u) /\ Get(browsers, u) # NoBrowser

\* The objects of user u that some variable still refers to.
Referenced(u) ==
    {IF Has(browsers, u) THEN Get(browsers, u) ELSE NoBrowser,
     agent_browser[u], awaited_close[u], served[u],
     IF sweep.user = u THEN sweep.h ELSE NoBrowser,
     IF admin.user = u THEN admin.h ELSE NoBrowser}
    \cup {admin.todo[i][2] : i \in {j \in DOMAIN admin.todo : admin.todo[j][1] = u}}

InUse(u) == Referenced(u) \cup handles[u].open \cup handles[u].closing

\* Browser(self._browser_config): a new object, distinct from every other one.
NewHandle(u) ==
    CHOOSE n \in 1..(Cardinality(InUse(u)) + 1) :
        /\ n \notin InUse(u)
        /\ \A m \in 1..(n - 1) : m \in InUse(u)

Created(hs, u) == [hs EXCEPT ![u].open = @ \cup {NewHandle(u)}]

\* browser.close() is called on handle h of user u: its close begins.
CloseBegun(hs, u, h) ==
    IF h \in hs[u].open
    THEN [hs EXCEPT ![u].open = @ \ {h}, ![u].closing = @ \cup {h}]
    ELSE hs

\* browser.close() has returned or raised: either way the handle is unusable.
CloseEnded(hs, u, h) == [hs EXCEPT ![u].open = @ \ {h}, ![u].closing = @ \ {h}]

\* time.time(), as the age of a stamp taken now
Now == 0

\* Mutation of CooldownActive: a cooldown that never ends.
AlwaysCooling(open_time, period) == TRUE

\* current_time - open_time < period
CooldownActive(open_time, period) == open_time < period

\* elapsed > self._inactivity_timeout
Expired(last_activity_time) == last_activity_time > inactivity_timeout

\* ------------------------------------------------- execute_search, 245-278
\* Mutation of Return: the keep-alive task outlives the call.
ReturnLeavingKeepAlive(u, text) ==
    /\ result' = [result EXCEPT ![u] = text]
    /\ pc' = [pc EXCEPT ![u] = "idle"]
    /\ retries' = [retries EXCEPT ![u] = 0]
    /\ agent_browser' = [agent_browser EXCEPT ![u] = NoBrowser]
    /\ UNCHANGED keep_alive
    /\ awaited_close' = [awaited_close EXCEPT ![u] = NoBrowser]
    /\ dispatches' = [dispatches EXCEPT ![u] = 0]
    /\ init_failed' = [init_failed EXCEPT ![u] = FALSE]

\* `return <text>`: the call is over and its locals are gone.
Return(u, text) ==
    /\ result' = [result EXCEPT ![u] = text]
    /\ pc' = [pc EXCEPT ![u] = "idle"]
    /\ retries' = [retries EXCEPT ![u] = 0]
    /\ agent_browser' = [agent_browser EXCEPT ![u] = NoBrowser]
    /\ keep_alive' = [keep_alive EXCEPT ![u] = NoTime]
    /\ awaited_close' = [awaited_close EXCEPT ![u] = NoBrowser]
    /\ dispatches' = [dispatches EXCEPT ![u] = 0]
    /\ init_failed' = [init_failed EXCEPT ![u] = FALSE]

\* Mutation of GeneralBlocks: an Open general breaker blocks whatever its age.
BlocksWhileOpen == circuit_open

\* `if self._circuit_open: ... if current_time - self._circuit_open_time < ...` (249-251)
GeneralBlocks ==
    circuit_open /\ CooldownActive(circuit_open_time, circuit_cooldown_period)

\* Mutation of AnthropicBlocks: the provider breaker never blocks a call.
NeverBlocks == FALSE

\* `if self._anthropic_circuit_open: ... < self._anthropic_circuit_reset_after` (262-264)
AnthropicBlocks ==
    anthropic_circuit_open
    /\ CooldownActive(anthropic_circuit_open_time, anthropic_circuit_reset_after)

\* From the call to the await of _extract_user_details, or to a blocked return.
\* A user has at most one call in progress.
ExecStart(u) ==
    /\ u \in env.callers
    /\ pc[u] = "idle"
    /\ calls < MaxCalls
    /\ calls' = calls + 1
    /\ last_activity_times' = Put(last_activity_times, u, Now)
    /\ IF GeneralBlocks
       THEN /\ Return(u, "blocked_general")
            /\ UNCHANGED breakerVars
       ELSE /\ circuit_open' = FALSE
            /\ circuit_failure_count' =
                   IF circuit_open THEN 0 ELSE circuit_failure_count
            /\ UNCHANGED circuit_open_time
            /\ IF AnthropicBlocks
               THEN /\ Return(u, "blocked_anthropic")
                    /\ UNCHANGED <<anthropic_failures, anthropic_circuit_open,
                                   anthropic_circuit_open_time>>
               ELSE /\ anthropic_circuit_open' = FALSE
                    /\ anthropic_failures' =
                           IF anthropic_circuit_open THEN 0 ELSE anthropic_failures
                    /\ UNCHANGED anthropic_circuit_open_time
                    /\ result' = [result EXCEPT ![u] = ""]
                    /\ pc' = [pc EXCEPT ![u] = "details"]
                    /\ UNCHANGED <<retries, agent_browser, keep_alive, awaited_close,
                                   dispatches, init_failed>>
    /\ UNCHANGED <<fixed, browsers, handles, current_contexts, inactivity_check_running,
                   served, sweep, admin, admin_ops, op_result>>

\* -------------------------------------------- execute_search, retry loop
\* Outcome classes of `await agent.run(...)`, in the order the handler tests them.
Outcomes == {"success", "install", "overload", "transient", "fatal"}

\* Shapes of the agent's result object, as extract_final_result tells them apart.
AgentShapes == {"str", "steps", "opaque", "unreadable"}

\* extract_final_result: text of the agent, or the text of its own except branch.
ExtractedText(shape) ==
    IF shape = "unreadable" THEN "extract_error_text" ELSE "agent_text"

\* Mutation of OuterExcept: the exception leaves execute_search instead of
\* becoming a text.
Propagated == "raised"

\* except Exception at 428: result = f"I encountered an error: {str(e)}"
OuterExcept == "error_text"

\* Mutation of NeedsInit: every pass through the loop initializes a browser.
AlwaysInit(u) == TRUE

\* `if user_id not in self._browsers or self._browsers[user_id] is None` (293)
NeedsInit(u) == ~HasBrowser(u)

\* After a failed attempt: cleanup(user_id, force=True) at 446, up to its first
\* suspension (the awaited close, or sleep(1) when nothing is live).
ResetBrowser(u) ==
    IF HasBrowser(u)
    THEN /\ handles' = CloseBegun(handles, u, Get(browsers, u))
         /\ awaited_close' = [awaited_close EXCEPT ![u] = Get(browsers, u)]
         /\ pc' = [pc EXCEPT ![u] = "reset_close"]
    ELSE /\ pc' = [pc EXCEPT ![u] = "reset_sleep"]
         /\ UNCHANGED <<handles, awaited_close>>

\* Agent(browser=self._browsers[user_id], ...), keep-alive task, agent.run (297-332)
StartDispatch(u, b) ==
    /\ agent_browser' = [agent_browser EXCEPT ![u] = b]
    /\ keep_alive' = [keep_alive EXCEPT ![u] = keep_alive_period]
    /\ dispatches' = [dispatches EXCEPT ![u] = @ + 1]
    /\ pc' = [pc EXCEPT ![u] = "dispatch"]

\* initialize_browser up to sleep(3).  The caller enters it only when the test
\* at 137 is false, so 138-146 never run.  Browser(...) at 152 returns or
\* raises; a raise reaches the handler at 428 and, nothing being live, the
\* forced reset goes straight to sleep(1).
Construct(u) ==
    \E created \in env.creation :
        IF created
        THEN /\ handles' = Created(handles, u)
             /\ browsers' = Put(browsers, u, NewHandle(u))
             /\ pc' = [pc EXCEPT ![u] = "init_sleep"]
             /\ UNCHANGED <<result, init_failed>>
        ELSE /\ result' = [result EXCEPT ![u] = OuterExcept]
             /\ init_failed' = [init_failed EXCEPT ![u] = TRUE]
             /\ pc' = [pc EXCEPT ![u] = "reset_sleep"]
             /\ UNCHANGED <<handles, browsers>>

\* Top of the loop body (290-332), up to the first suspension.
LoopTop(u) ==
    IF NeedsInit(u)
    THEN /\ Construct(u)
         /\ UNCHANGED <<agent_browser, keep_alive, awaited_close, dispatches>>
    ELSE /\ StartDispatch(u, Get(browsers, u))
         /\ UNCHANGED <<browsers, handles, result, awaited_close, init_failed>>

\* _extract_user_details has returned: first pass through the loop body.
ExecLoop(u) ==
    /\ pc[u] = "details"
    /\ LoopTop(u)
    /\ UNCHANGED <<fixed, last_activity_times, current_contexts, inactivity_check_running,
                   breakerVars, retries, served, calls, sweep, admin, admin_ops,
                   op_result>>

\* Mutation of ExecInitResume: every initialisation starts a sweep task.
ExecInitResumeStartingSweep(u) ==
    /\ pc[u] = "init_sleep"
    /\ inactivity_check_running' = TRUE
    /\ sweep' = SweepIdle("sleep")
    /\ last_activity_times' = Put(last_activity_times, u, Now)
    /\ StartDispatch(u, Get(browsers, u))
    /\ UNCHANGED <<fixed, handles, result, awaited_close, init_failed, browsers,
                   current_contexts, breakerVars, retries, served, calls, admin,
                   admin_ops, op_result>>

\* initialize_browser resumes after the sleep that follows the construction
\* (154-168); then 297-332.
ExecInitResume(u) ==
    /\ pc[u] = "init_sleep"
    /\ inactivity_check_running' = TRUE
    /\ sweep' = IF inactivity_check_running THEN sweep ELSE SweepIdle("sleep")
    /\ last_activity_times' = Put(last_activity_times, u, Now)
    /\ IF Has(browsers, u)
       THEN /\ StartDispatch(u, Get(browsers, u))
            /\ UNCHANGED <<handles, result, awaited_close, init_failed>>
       ELSE \* `return self._browsers[user_id]` raises KeyError, handled at 428
            /\ result' = [result EXCEPT ![u] = OuterExcept]
            /\ init_failed' = [init_failed EXCEPT ![u] = TRUE]
            /\ ResetBrowser(u)
            /\ UNCHANGED <<agent_browser, keep_alive, dispatches>>
    /\ UNCHANGED <<fixed, browsers, current_contexts, breakerVars, retries, served, calls,
                   admin, admin_ops, op_result>>

\* keep_browser_active: one refresh of the timestamp, then sleep again (309-313)
KeepAlive(u) ==
    /\ pc[u] = "dispatch"
    /\ keep_alive[u] = 0
    /\ last_activity_times' = Put(last_activity_times, u, Now)
    /\ keep_alive' = [keep_alive EXCEPT ![u] = keep_alive_period]
    /\ UNCHANGED <<fixed, browsers, handles, current_contexts, inactivity_check_running,
                   breakerVars, pc, retries, result, agent_browser, awaited_close, served,
                   dispatches, init_failed, calls, sweep, admin, admin_ops, op_result>>

\* Text stored in `result` by the except branch of each failure class (379-419).
FailureTexts(outcome) ==
    CASE outcome = "install" -> {"browser_issue", "technical_issue"}
      [] outcome = "overload" -> {"overload_retry"}
      [] outcome = "transient" -> {"connection_retry"}
      [] OTHER -> {"error_text"}

\* Mutation of CountsTowardGeneral: the overload that trips the provider
\* breaker counts as well.
EveryOverloadCounts(outcome, tripA) == outcome \in {"overload", "transient"}

\* Mutation of CountsTowardGeneral: only overloads count.
OverloadOnly(outcome, tripA) == outcome = "overload" /\ ~tripA

\* The failure classes whose branch runs `self._circuit_failure_count += 1`: an
\* overload that does not trip the provider breaker (396) and a connection
\* error (406).
CountsTowardGeneral(outcome, tripA) ==
    (outcome = "overload" /\ ~tripA) \/ outcome = "transient"

\* Mutation of CleanupFinally: the map and the bookkeeping are left as they are.
FinallySkipped(u, hs) ==
    /\ handles' = hs
    /\ UNCHANGED <<browsers, last_activity_times, current_contexts>>

\* Mutation of Succeeded: the failure counts survive a successful dispatch.
SucceededKeepingCounts(u) ==
    /\ \E shape \in env.shapes : Return(u, ExtractedText(shape))
    /\ served' = [served EXCEPT ![u] = agent_browser[u]]
    /\ last_activity_times' = Put(last_activity_times, u, Now)
    /\ UNCHANGED <<breakerVars, handles>>

\* Mutation of Succeeded: the browser is closed after a successful dispatch.
SucceededAndClosed(u) ==
    /\ \E shape \in env.shapes : Return(u, ExtractedText(shape))
    /\ served' = [served EXCEPT ![u] = agent_browser[u]]
    /\ anthropic_failures' = 0
    /\ circuit_failure_count' = 0
    /\ last_activity_times' = Put(last_activity_times, u, Now)
    /\ handles' = CloseEnded(handles, u, agent_browser[u])
    /\ UNCHANGED <<anthropic_circuit_open, anthropic_circuit_open_time,
                   circuit_open, circuit_open_time>>

\* Mutation of Succeeded: a success also closes both breakers.
SucceededClosingBreakers(u) ==
    /\ \E shape \in env.shapes : Return(u, ExtractedText(shape))
    /\ served' = [served EXCEPT ![u] = agent_browser[u]]
    /\ anthropic_failures' = 0
    /\ circuit_failure_count' = 0
    /\ last_activity_times' = Put(last_activity_times, u, Now)
    /\ anthropic_circuit_open' = FALSE
    /\ circuit_open' = FALSE
    /\ UNCHANGED <<anthropic_circuit_open_time, circuit_open_time, handles>>

\* agent.run has returned: 335-347, the finally block, and the return at 471-474.
Succeeded(u) ==
    /\ \E shape \in env.shapes : Return(u, ExtractedText(shape))
    /\ served' = [served EXCEPT ![u] = agent_browser[u]]
    /\ anthropic_failures' = 0
    /\ circuit_failure_count' = 0
    /\ last_activity_times' = Put(last_activity_times, u, Now)
    /\ UNCHANGED <<anthropic_circuit_open, anthropic_circuit_open_time,
                   circuit_open, circuit_open_time, handles>>

\* `await agent.run(...)` returns or raises: 334-426, the finally block (433-440)
\* and what follows it up to the next suspension: the return at 471-474, the
\* pending return of a tripped breaker, or the forced reset at 442-447.
DispatchDone(u) ==
    /\ pc[u] = "dispatch"
    /\ \E outcome \in env.outcomes :
       IF outcome = "success"
       THEN Succeeded(u)
       ELSE LET af == IF outcome = "overload"
                      THEN anthropic_failures + 1 ELSE anthropic_failures
                tripA == outcome = "overload" /\ af >= anthropic_failure_threshold
                cf == IF CountsTowardGeneral(outcome, tripA)
                      THEN circuit_failure_count + 1 ELSE circuit_failure_count
                tripG == ~tripA /\ cf >= circuit_reset_threshold
            IN  /\ anthropic_failures' = af
                /\ circuit_failure_count' = cf
                /\ anthropic_circuit_open' = (anthropic_circuit_open \/ tripA)
                /\ anthropic_circuit_open_time' =
                       IF tripA THEN Now ELSE anthropic_circuit_open_time
                /\ circuit_open' = (circuit_open \/ tripG)
                /\ circuit_open_time' = IF tripG THEN Now ELSE circuit_open_time
                /\ UNCHANGED last_activity_times
                /\ served' = [served EXCEPT ![u] = NoBrowser]
                /\ IF tripA
                   THEN Return(u, "tripped_anthropic") /\ UNCHANGED handles
                   ELSE IF tripG
                   THEN Return(u, "tripped_general") /\ UNCHANGED handles
                   ELSE /\ \E msg \in FailureTexts(outcome) :
                               result' = [result EXCEPT ![u] = msg]
                        /\ agent_browser' = [agent_browser EXCEPT ![u] = NoBrowser]
                        /\ keep_alive' = [keep_alive EXCEPT ![u] = NoTime]
                        /\ ResetBrowser(u)
                        /\ UNCHANGED <<retries, dispatches, init_failed>>
    /\ UNCHANGED <<fixed, browsers, current_contexts, inactivity_check_running, calls,
                   sweep, admin, admin_ops, op_result>>

\* The finally of cleanup(user_id) (493-498), for every caller of cleanup, with
\* hs the handles once the awaited close has returned or raised.
CleanupFinally(u, hs) ==
    /\ handles' = hs
    /\ browsers' = Put(browsers, u, NoBrowser)
    /\ last_activity_times' = Del(last_activity_times, u)
    /\ current_contexts' = Del(current_contexts, u)

\* The close awaited by the forced reset returns or raises; then sleep(1).
ExecResetClosed(u) ==
    /\ pc[u] = "reset_close"
    /\ CleanupFinally(u, CloseEnded(handles, u, awaited_close[u]))
    /\ pc' = [pc EXCEPT ![u] = "reset_sleep"]
    /\ awaited_close' = [awaited_close EXCEPT ![u] = NoBrowser]
    /\ UNCHANGED <<fixed, inactivity_check_running, breakerVars, retries, result,
                   agent_browser, keep_alive, served, dispatches, init_failed, calls,
                   sweep, admin, admin_ops, op_result>>

\* Mutation of RetriesExhausted: no pass through the loop after the first.
ExhaustedAtOnce(u) == TRUE

\* Mutation of RetriesExhausted: one more pass through the loop.
OneMoreRetry(u) == retries[u] > MAX_RETRIES

\* `retries += 1` then `if retries > max_retries` (452-455)
RetriesExhausted(u) == retries[u] + 1 > MAX_RETRIES

\* After sleep(1): 451-459 and the return at 471-474 once the retries are used
\* up; otherwise the backoff sleep (461-469) and the next pass through the loop.
ExecRetry(u) ==
    /\ pc[u] = "reset_sleep"
    /\ IF RetriesExhausted(u)
       THEN /\ Return(u, IF result[u] = "" THEN "max_retries_text" ELSE result[u])
            /\ last_activity_times' = Put(last_activity_times, u, Now)
            /\ UNCHANGED <<browsers, handles>>
       ELSE /\ retries' = [retries EXCEPT ![u] = @ + 1]
            /\ LoopTop(u)
            /\ UNCHANGED last_activity_times
    /\ UNCHANGED <<fixed, current_contexts, inactivity_check_running, breakerVars, served,
                   calls, sweep, admin, admin_ops, op_result>>

\* ------------------------------------------------- _check_inactivity, 99-131
RECURSIVE UsersOf(_)
UsersOf(d) == IF d = <<>> THEN <<>> ELSE <<Head(d)[1]>> \o UsersOf(Tail(d))

\* browsers_to_close: the users, in the order of _last_activity_times, that have a
\* key in _browsers and a timestamp older than the timeout (107-114).
BrowsersToClose ==
    UsersOf(SelectSeq(last_activity_times,
                      LAMBDA e : Has(browsers, e[1]) /\ Expired(e[2])))

\* cleanup(user_id) returns at once for a user without a live instance (499-500).
RECURSIVE SkipNothingToClean(_)
SkipNothingToClean(todo) ==
    IF todo = <<>> THEN <<>>
    ELSE IF HasBrowser(Head(todo)) THEN todo
    ELSE SkipNothingToClean(Tail(todo))

\* The sweep calls cleanup(user_id) for the head of todo: its close begins.
SweepClosing(todo) ==
    [pc |-> "closing", user |-> Head(todo), h |-> Get(browsers, Head(todo)),
     todo |-> Tail(todo)]

\* One pass of the loop, up to the first close it awaits.  A pass that has
\* nothing to close changes nothing and goes back to sleep.
SweepPass ==
    /\ sweep.pc = "sleep"
    /\ LET todo == SkipNothingToClean(BrowsersToClose)
       IN  /\ todo # <<>>
           /\ handles' = CloseBegun(handles, Head(todo), Get(browsers, Head(todo)))
           /\ sweep' = SweepClosing(todo)
    /\ UNCHANGED <<fixed, browsers, last_activity_times, current_contexts,
                   inactivity_check_running, breakerVars, callVars, admin, admin_ops,
                   op_result>>

\* The close awaited by the sweep's cleanup(user_id) returns or raises; the loop
\* goes on to the next user of browsers_to_close, or to sleep(60).
SweepClosed ==
    /\ sweep.pc = "closing"
    /\ LET todo == SkipNothingToClean(sweep.todo)
           closed == CloseEnded(handles, sweep.user, sweep.h)
       IN  IF todo = <<>>
           THEN /\ CleanupFinally(sweep.user, closed)
                /\ sweep' = SweepIdle("sleep")
           ELSE /\ CleanupFinally(sweep.user,
                                  CloseBegun(closed, Head(todo), Get(browsers, Head(todo))))
                /\ sweep' = SweepClosing(todo)
    /\ UNCHANGED <<fixed, inactivity_check_running, breakerVars, callVars, admin, admin_ops,
                   op_result>>

\* --------------------------------- operations invoked by other tasks
AdminFree == admin.op = "none" /\ admin_ops < MaxAdminOps

\* `await browser.close()` returns or raises.
CloseOutcomes == {"closed", "raised"}

\* Mutation of CloseHandled: the exception of a close leaves the operation.
CloseReraised(outcome) == IF outcome = "raised" THEN "raised" ELSE "returned"

\* `except Exception as e: logger.warning(...)` around the close (491-492,
\* 508-509, 537-538, 551-552): the operation goes on and returns normally.
CloseHandled(outcome) == "returned"

Finished(op, u, status, close) ==
    [op |-> op, user |-> u, status |-> status, close |-> close]

\* cleanup(user_id=u) (486-500) and force_close_browser(user_id=u) (531-544) run
\* the same statements: up to the awaited close, or through when nothing is live.
CloseUserBegin(u, op) ==
    /\ AdminFree
    /\ admin_ops' = admin_ops + 1
    /\ IF HasBrowser(u)
       THEN /\ handles' = CloseBegun(handles, u, Get(browsers, u))
            /\ admin' = [op |-> op, user |-> u, h |-> Get(browsers, u), todo |-> <<>>]
            /\ UNCHANGED op_result
       ELSE /\ op_result' = Finished(op, u, "returned", "none")
            /\ UNCHANGED <<handles, admin>>
    /\ UNCHANGED <<fixed, browsers, last_activity_times, current_contexts,
                   inactivity_check_running, breakerVars, callVars, sweep>>

CleanupUser(u) == CloseUserBegin(u, "cleanup_user")

ForceCloseUser(u) == CloseUserBegin(u, "force_user")

CloseUserDone ==
    /\ admin.op \in {"cleanup_user", "force_user"}
    /\ CleanupFinally(admin.user, CloseEnded(handles, admin.user, admin.h))
    /\ admin' = AdminIdle
    /\ \E outcome \in CloseOutcomes :
           op_result' = Finished(admin.op, admin.user, CloseHandled(outcome), outcome)
    /\ UNCHANGED <<fixed, inactivity_check_running, breakerVars, callVars, sweep, admin_ops>>

\* Entries of list(self._browsers.items()) whose browser is None are passed over.
RECURSIVE SkipNone(_)
SkipNone(items) ==
    IF items = <<>> THEN <<>>
    ELSE IF Head(items)[2] # NoBrowser THEN items
    ELSE SkipNone(Tail(items))

\* self._browsers.clear(); self._last_activity_times.clear(); ... (513-516, 554-557)
ClearAll ==
    /\ browsers' = <<>>
    /\ last_activity_times' = <<>>
    /\ current_contexts' = <<>>

\* cleanup() (501-518) and force_close_browser() (545-559) over a snapshot of the
\* map: up to the first awaited close, or through when no instance is live.
CloseAllBegin(op) ==
    /\ AdminFree
    /\ admin_ops' = admin_ops + 1
    /\ LET items == SkipNone(browsers)
       IN  IF items = <<>>
           THEN /\ ClearAll
                /\ op_result' = Finished(op, 0, "returned", "none")
                /\ UNCHANGED <<handles, admin>>
           ELSE /\ handles' = CloseBegun(handles, Head(items)[1], Head(items)[2])
                /\ admin' = [op |-> op, user |-> Head(items)[1], h |-> Head(items)[2],
                             todo |-> Tail(items)]
                /\ UNCHANGED <<browsers, last_activity_times, current_contexts,
                               op_result>>
    /\ UNCHANGED <<fixed, inactivity_check_running, breakerVars, callVars, sweep>>

CleanupAll == CloseAllBegin("cleanup_all")

ForceCloseAll == CloseAllBegin("force_all")

\* An awaited close of the snapshot returns or raises.  cleanup() sets the user's
\* entry to None in its finally (510-511); force_close_browser() does not.
CloseAllDone ==
    /\ admin.op \in {"cleanup_all", "force_all"}
    /\ LET items == SkipNone(admin.todo)
           closed == CloseEnded(handles, admin.user, admin.h)
       IN  IF items = <<>>
           THEN /\ handles' = closed
                /\ ClearAll
                /\ admin' = AdminIdle
                /\ \E outcome \in CloseOutcomes :
                       op_result' = Finished(admin.op, 0, CloseHandled(outcome), outcome)
           ELSE /\ handles' = CloseBegun(closed, Head(items)[1], Head(items)[2])
                /\ browsers' = IF admin.op = "cleanup_all"
                               THEN Put(browsers, admin.user, NoBrowser)
                               ELSE browsers
                /\ admin' = [admin EXCEPT !.user = Head(items)[1], !.h = Head(items)[2],
                                          !.todo = Tail(items)]
                /\ UNCHANGED <<last_activity_times, current_contexts, op_result>>
    /\ UNCHANGED <<fixed, inactivity_check_running, breakerVars, callVars, sweep, admin_ops>>

\* initialize_browser(user_id), 149-154 and 169-171: Browser(...) returns, and
\* the operation sleeps 3 s, or raises, and the handler at 169 re-raises.
\* `close` is how the pre-close ended, "none" when there was none.
InitConstruct(u, close) ==
    \E created \in env.creation :
        IF created
        THEN /\ handles' = Created(handles, u)
             /\ browsers' = Put(browsers, u, NewHandle(u))
             /\ admin' = [op |-> "init_sleep", user |-> u, h |-> NoBrowser, todo |-> <<>>]
             /\ op_result' = Finished("initialize_browser", u, "pending", close)
        ELSE /\ admin' = AdminIdle
             /\ op_result' = Finished("initialize_browser", u, "raised", close)
             /\ UNCHANGED <<handles, browsers>>

\* initialize_browser(user_id) invoked on its own: with a live handle in the
\* map it first closes that one (137-140), otherwise it constructs at once.
InitializeBegin(u) ==
    /\ AdminFree
    /\ admin_ops' = admin_ops + 1
    /\ IF HasBrowser(u)
       THEN /\ handles' = CloseBegun(handles, u, Get(browsers, u))
            /\ admin' = [op |-> "init_preclose", user |-> u, h |-> Get(browsers, u),
                         todo |-> <<>>]
            /\ UNCHANGED <<browsers, op_result>>
       ELSE InitConstruct(u, "none")
    /\ UNCHANGED <<fixed, last_activity_times, current_contexts, inactivity_check_running,
                   breakerVars, callVars, sweep>>

\* The pre-close returns or raises (141-146): the entry is set to None and the
\* operation sleeps 1 s.
InitializePreClosed ==
    /\ admin.op = "init_preclose"
    /\ handles' = CloseEnded(handles, admin.user, admin.h)
    /\ browsers' = Put(browsers, admin.user, NoBrowser)
    /\ \E outcome \in CloseOutcomes :
           IF CloseHandled(outcome) = "returned"
           THEN /\ admin' = [admin EXCEPT !.op = "init_sleep1", !.h = NoBrowser]
                /\ op_result' = Finished("initialize_browser", admin.user, "pending",
                                         outcome)
           ELSE /\ admin' = AdminIdle
                /\ op_result' = Finished("initialize_browser", admin.user, "raised",
                                         outcome)
    /\ UNCHANGED <<fixed, last_activity_times, current_contexts, inactivity_check_running,
                   breakerVars, callVars, sweep, admin_ops>>

\* After the sleep that follows the pre-close: 149-154.
InitializeConstruct ==
    /\ admin.op = "init_sleep1"
    /\ InitConstruct(admin.user, op_result.close)
    /\ UNCHANGED <<fixed, last_activity_times, current_contexts, inactivity_check_running,
                   breakerVars, callVars, sweep, admin_ops>>

\* After the sleep that follows the construction: 155-168, or the KeyError of
\* line 168 when the entry is gone, re-raised at 171.
InitializeResume ==
    /\ admin.op = "init_sleep"
    /\ inactivity_check_running' = TRUE
    /\ sweep' = IF inactivity_check_running THEN sweep ELSE SweepIdle("sleep")
    /\ last_activity_times' = Put(last_activity_times, admin.user, Now)
    /\ admin' = AdminIdle
    /\ op_result' = Finished("initialize_browser", admin.user,
                             IF Has(browsers, admin.user) THEN "returned" ELSE "raised",
                             op_result.close)
    /\ UNCHANGED <<fixed, browsers, handles, current_contexts, breakerVars, callVars,
                   admin_ops>>

\* Mutation of ExtendTimeout: only an existing entry is refreshed.
ExtendExistingOnly(u) ==
    /\ AdminFree
    /\ admin_ops' = admin_ops + 1
    /\ last_activity_times' = IF Has(last_activity_times, u)
                              THEN Put(last_activity_times, u, Now)
                              ELSE last_activity_times
    /\ op_result' = Finished("extend_timeout", u, "returned", "none")
    /\ UNCHANGED <<fixed, browsers, handles, current_contexts, inactivity_check_running,
                   breakerVars, callVars, sweep, admin>>

\* extend_timeout (564-585): both branches store the current time.
ExtendTimeout(u) ==
    /\ AdminFree
    /\ admin_ops' = admin_ops + 1
    /\ last_activity_times' = Put(last_activity_times, u, Now)
    /\ op_result' = Finished("extend_timeout", u, "returned", "none")
    /\ UNCHANGED <<fixed, browsers, handles, current_contexts, inactivity_check_running,
                   breakerVars, callVars, sweep, admin>>

\* reset_circuit_breaker (632-641)
ResetCircuitBreaker ==
    /\ AdminFree
    /\ admin_ops' = admin_ops + 1
    /\ circuit_open' = FALSE
    /\ circuit_open_time' = NoTime
    /\ circuit_failure_count' = 0
    /\ anthropic_failures' = 0
    /\ anthropic_circuit_open' = FALSE
    /\ anthropic_circuit_open_time' = NoTime
    /\ op_result' = Finished("reset_circuit_breaker", 0, "returned", "none")
    /\ UNCHANGED <<fixed, sessionVars, inactivity_check_running, callVars, sweep, admin>>

\* ----------------------------------------------------------------- clock
Older(age, cap) ==
    IF age = NoTime \/ age >= cap THEN age ELSE age + keep_alive_period

\* 300 s pass.  Only a dispatch and the time between calls last that long:
\* the other awaits of a call, a close and the sleeps around it take seconds,
\* and the sweep, which wakes every 60 s, has by then closed what it found
\* expired.  A keep-alive task whose sleep has ended refreshes first.
Pass(activity) ==
    /\ \A u \in Users : pc[u] \in {"idle", "dispatch"} /\ keep_alive[u] # 0
    /\ admin.op = "none"
    /\ sweep.pc \in {"off", "sleep"}
    /\ sweep.pc = "sleep" => SkipNothingToClean(BrowsersToClose) = <<>>
    /\ keep_alive' = [u \in Users |->
                         IF keep_alive[u] = NoTime THEN NoTime
                         ELSE keep_alive[u] - keep_alive_period]
    /\ last_activity_times' = activity
    /\ circuit_open_time' = Older(circuit_open_time, circuit_cooldown_period)
    /\ anthropic_circuit_open_time' =
           Older(anthropic_circuit_open_time, anthropic_circuit_reset_after)
    /\ \/ last_activity_times' # last_activity_times
       \/ circuit_open_time' # circuit_open_time
       \/ anthropic_circuit_open_time' # anthropic_circuit_open_time
       \/ keep_alive' # keep_alive
    /\ UNCHANGED <<fixed, browsers, handles, current_contexts, inactivity_check_running,
                   anthropic_failures, anthropic_circuit_open, circuit_open,
                   circuit_failure_count, pc, retries, result, agent_browser,
                   awaited_close, served, dispatches, init_failed, calls, sweep, admin,
                   admin_ops, op_result>>

Tick ==
    Pass([i \in DOMAIN last_activity_times |->
             <<last_activity_times[i][1],
               Older(last_activity_times[i][2], inactivity_timeout + 1)>>])

\* Where no sweep runs nothing reads the age of a last-activity stamp, and the
\* clock leaves it alone.
BreakerTick == Pass(last_activity_times)

\* ------------------------------------------------------------ specifications
\* Session manager.  One user calls; its dispatches succeed or fail with an
\* unclassified error (so the breakers stay closed) and the constructor may
\* raise; the sweep runs, and other tasks invoke cleanup, force_close_browser
\* and extend_timeout at any suspension point.
SessionEnv ==
    [callers |-> {1}, outcomes |-> {"success", "fatal"}, shapes |-> {"str"},
     creation |-> BOOLEAN]

Init == Start(SessionEnv)

Next ==
    \/ Tick
    \/ \E u \in Users : ExecStart(u)
    \/ \E u \in Users : ExecLoop(u)
    \/ \E u \in Users : ExecInitResume(u)
    \/ \E u \in Users : KeepAlive(u)
    \/ \E u \in Users : DispatchDone(u)
    \/ \E u \in Users : ExecResetClosed(u)
    \/ \E u \in Users : ExecRetry(u)
    \/ SweepPass
    \/ SweepClosed
    \/ \E u \in env.callers : CleanupUser(u)
    \/ \E u \in env.callers : ForceCloseUser(u)
    \/ CloseUserDone
    \/ CleanupAll
    \/ ForceCloseAll
    \/ CloseAllDone
    \/ \E u \in env.callers : ExtendTimeout(u)

Spec == Init /\ [][Next]_vars

\* Inactivity sweep.  Two users call and every dispatch succeeds; the sweep is
\* the only other task.
SweepEnv ==
    [callers |-> Users, outcomes |-> {"success"}, shapes |-> {"str"},
     creation |-> {TRUE}]

InitSweep == Start(SweepEnv)

NextSweep ==
    \/ Tick
    \/ \E u \in Users : ExecStart(u)
    \/ \E u \in Users : ExecLoop(u)
    \/ \E u \in Users : ExecInitResume(u)
    \/ \E u \in Users : KeepAlive(u)
    \/ \E u \in Users : DispatchDone(u)
    \/ SweepPass
    \/ SweepClosed

SpecSweep == InitSweep /\ [][NextSweep]_vars

\* Resilience controller.  Two users call; a dispatch succeeds or fails with an
\* overload, a connection error or an unclassified error, and the breakers may
\* be reset by hand.  No other task touches the session map.
BreakerEnv ==
    [callers |-> Users, outcomes |-> Outcomes \ {"install"}, shapes |-> {"str"},
     creation |-> {TRUE}]

InitBreaker == Start(BreakerEnv)

NextBreaker ==
    \/ BreakerTick
    \/ \E u \in Users : ExecStart(u)
    \/ \E u \in Users : ExecLoop(u)
    \/ \E u \in Users : ExecInitResume(u)
    \/ \E u \in Users : KeepAlive(u)
    \/ \E u \in Users : DispatchDone(u)
    \/ \E u \in Users : ExecResetClosed(u)
    \/ \E u \in Users : ExecRetry(u)
    \/ ResetCircuitBreaker

SpecBreaker == InitBreaker /\ [][NextBreaker]_vars

\* One call at a time.  One user calls; the constructor may raise, a dispatch
\* has any outcome class and any result shape, and the breakers may be reset
\* by hand.  No other task touches the session map.
CallEnv ==
    [callers |-> {1}, outcomes |-> Outcomes, shapes |-> AgentShapes,
     creation |-> BOOLEAN]

InitCall == Start(CallEnv)

SpecCall == InitCall /\ [][NextBreaker]_vars

\* The same, with every await of a call ending: _extract_user_details and the
\* sleeps return, and each handle creation, dispatch and close returns or
\* raises.
SpecCallFair ==
    /\ SpecCall
    /\ \A u \in Users :
           /\ WF_vars(ExecLoop(u))
           /\ WF_vars(ExecInitResume(u))
           /\ WF_vars(DispatchDone(u))
           /\ WF_vars(ExecResetClosed(u))
           /\ WF_vars(ExecRetry(u))

\* Operations on one user's session.  One user calls; its dispatches succeed or
\* fail with an unclassified error and the constructor may raise; other tasks
\* invoke cleanup(user_id), force_close_browser(user_id) and
\* initialize_browser(user_id) at any suspension point.  No time passes.
OpsEnv ==
    [callers |-> {1}, outcomes |-> {"success", "fatal"}, shapes |-> {"str"},
     creation |-> BOOLEAN]

InitOps == Start(OpsEnv)

NextOps ==
    \/ \E u \in Users : ExecStart(u)
    \/ \E u \in Users : ExecLoop(u)
    \/ \E u \in Users : ExecInitResume(u)
    \/ \E u \in Users : DispatchDone(u)
    \/ \E u \in Users : ExecResetClosed(u)
    \/ \E u \in Users : ExecRetry(u)
    \/ \E u \in env.callers : CleanupUser(u)
    \/ \E u \in env.callers : ForceCloseUser(u)
    \/ CloseUserDone
    \/ \E u \in env.callers : InitializeBegin(u)
    \/ InitializePreClosed
    \/ InitializeConstruct
    \/ InitializeResume

SpecOps == InitOps /\ [][NextOps]_vars

\* Connection errors.  Two users call; a dispatch succeeds or fails with a
\* timeout / connection / network / socket error, and the breakers may be reset
\* by hand.
TransientEnv ==
    [callers |-> Users, outcomes |-> {"success", "transient"}, shapes |-> {"str"},
     creation |-> {TRUE}]

InitTransient == Start(TransientEnv)

SpecTransient == InitTransient /\ [][NextBreaker]_vars

\* ------------------------------------------------------------- properties
\* Vocabulary of the properties, over one step of the system.

\* An agent dispatch starts for user u in this step.
DispatchStarts(u) == pc[u] # "dispatch" /\ pc'[u] = "dispatch"

\* An execute_search call starts in this step.
CallStarts == calls' = calls + 1

\* The call of user u takes its first step after the breaker check.
FirstPass(u) == pc[u] = "details" /\ pc'[u] # "details"

\* The texts execute_search can return.
ReturnedTexts ==
    {"blocked_general", "blocked_anthropic", "tripped_anthropic", "tripped_general",
     "agent_text", "extract_error_text", "browser_issue", "technical_issue",
     "overload_retry", "connection_retry", "error_text", "max_retries_text"}

\* C1: once the overload failures counted since the last success or reset of
\* the provider breaker reach the threshold (3), that breaker is Open, stamped
\* with the current time; and every execute_search call that starts while a
\* breaker is Open with its cooldown not yet elapsed returns that breaker's
\* blocked ('high demand') message at once, no user's call moving on.
C1_OpenAfterThresholdAndBlocks ==
    [][/\ (anthropic_failures' >= anthropic_failure_threshold => anthropic_circuit_open')
       /\ (/\ anthropic_failures' = anthropic_failures + 1
           /\ anthropic_failures' >= anthropic_failure_threshold
           => anthropic_circuit_open' /\ anthropic_circuit_open_time' = 0)
       /\ (CallStarts /\ circuit_open /\ circuit_open_time < circuit_cooldown_period
           => /\ pc' = pc
              /\ \E u \in Users : result' = [result EXCEPT ![u] = "blocked_general"])
       /\ (/\ CallStarts
           /\ ~(circuit_open /\ circuit_open_time < circuit_cooldown_period)
           /\ anthropic_circuit_open
           /\ anthropic_circuit_open_time < anthropic_circuit_reset_after
           => /\ pc' = pc
              /\ \E u \in Users : result' = [result EXCEPT ![u] = "blocked_anthropic"])
      ]_vars

\* C1's case: the third overload in a row has opened the provider breaker and a
\* call started during the cooldown has been answered with the blocked message.
C1_Witness ==
    /\ anthropic_circuit_open
    /\ anthropic_failures = anthropic_failure_threshold
    /\ anthropic_circuit_open_time < anthropic_circuit_reset_after
    /\ \E u \in Users : pc[u] = "idle" /\ result[u] = "blocked_anthropic"

\* C2, as stated: a call that starts once a breaker has been Open for the
\* cooldown period leaves that breaker Closed with a failure count of 0.
C2_CooledBreakerCloses ==
    [][CallStarts =>
         /\ (circuit_open /\ circuit_open_time >= circuit_cooldown_period
             => ~circuit_open' /\ circuit_failure_count' = 0)
         /\ (/\ anthropic_circuit_open
             /\ anthropic_circuit_open_time >= anthropic_circuit_reset_after
             => ~anthropic_circuit_open' /\ anthropic_failures' = 0)
      ]_vars

\* C2, amended: the general breaker is tested first, so a call that starts once
\* the general breaker has been Open for its cooldown closes it with count 0;
\* a call that starts once the provider breaker has been Open for its cooldown
\* closes it with count 0 and goes on, unless the general breaker blocks that
\* call first, in which case the provider breaker is left as it was.
C2_CooledBreakerClosesUnlessBlockedFirst ==
    [][CallStarts =>
         /\ (circuit_open /\ circuit_open_time >= circuit_cooldown_period
             => ~circuit_open' /\ circuit_failure_count' = 0)
         /\ (/\ anthropic_circuit_open
             /\ anthropic_circuit_open_time >= anthropic_circuit_reset_after
             => IF circuit_open /\ circuit_open_time < circuit_cooldown_period
                THEN /\ UNCHANGED <<anthropic_circuit_open, anthropic_failures>>
                     /\ pc' = pc
                ELSE /\ ~anthropic_circuit_open'
                     /\ anthropic_failures' = 0
                     /\ \E u \in Users : pc[u] = "idle" /\ pc'[u] = "details")
      ]_vars

\* C2's case: a call has found the provider breaker Open past its cooldown, has
\* closed it (the stamp of the opening is still there) and is going on.
C2_Witness ==
    /\ ~anthropic_circuit_open
    /\ anthropic_circuit_open_time >= anthropic_circuit_reset_after
    /\ anthropic_failures = 0
    /\ \E u \in Users : pc[u] = "details"

\* C3: while a breaker is Open and its cooldown has not elapsed, no agent
\* dispatch starts for any user, retries of calls already in progress included.
C3_NoDispatchWhileOpen ==
    [][\A u \in Users :
         DispatchStarts(u) =>
           /\ ~(circuit_open /\ circuit_open_time < circuit_cooldown_period)
           /\ ~(/\ anthropic_circuit_open
                /\ anthropic_circuit_open_time < anthropic_circuit_reset_after)
      ]_vars

\* C4: when the sweep begins to close a user's handle, no dispatch of that user
\* is in flight.
C4_SweepSparesInFlight ==
    [][sweep' # sweep /\ sweep'.pc = "closing" => pc[sweep'.user] # "dispatch"]_vars

\* C5: a dispatch never starts on a handle whose close has begun.
C5_NoDispatchOnClosingHandle ==
    [][\A u \in Users :
         DispatchStarts(u) => agent_browser'[u] \notin handles[u].closing
      ]_vars

\* C6: each user has at most one handle created and not yet closed, and every
\* such handle that is not being closed is the one the session map holds.
C6_OneLiveHandle ==
    \A u \in Users :
        /\ Cardinality(handles[u].open \cup handles[u].closing) <= 1
        /\ \A h \in handles[u].open : Has(browsers, u) /\ Get(browsers, u) = h

\* C7, as stated: the first step of a call after the breaker check never
\* dispatches; it closes the handle the map holds, if any, and goes on to
\* create a fresh one.
C7_FreshHandlePerCall ==
    [][\A u \in Users :
         FirstPass(u) =>
           /\ pc'[u] # "dispatch"
           /\ (HasBrowser(u) => Get(browsers, u) \notin handles'[u].open)
      ]_vars

\* C7, amended: a call creates a fresh handle only when the session map holds
\* no handle for its user; when the map holds one, the call's first dispatch
\* starts at once on that pre-existing handle, which is neither closed nor
\* replaced, so one handle serves the dispatches of successive calls.
C7_FreshHandleOnlyWhenNoneHeld ==
    [][\A u \in Users :
         FirstPass(u) =>
           IF Has(browsers, u) /\ Get(browsers, u) # NoBrowser
           THEN /\ pc'[u] = "dispatch"
                /\ agent_browser'[u] = Get(browsers, u)
                /\ UNCHANGED <<browsers, handles>>
           ELSE \/ /\ pc'[u] = "init_sleep"
                   /\ Get(browsers', u) \in handles'[u].open
                   /\ Get(browsers', u) \notin InUse(u)
                \/ /\ pc'[u] = "reset_sleep"
                   /\ UNCHANGED <<browsers, handles>>
      ]_vars

\* C7's case: the first dispatch of a user's second call runs on the handle
\* that served the first call.
C7_Witness ==
    \E u \in Users :
        /\ calls = 2
        /\ pc[u] = "dispatch"
        /\ retries[u] = 0
        /\ agent_browser[u] # NoBrowser
        /\ served[u] = agent_browser[u]

\* C8: a successful dispatch leaves the session map and the handles as they
\* are; the handle it ran on, while the map holds it open, is lost only to a
\* step of the sweep or of a cleanup / force-close or to a later failed
\* dispatch; and the next call of the user, finding it so, starts its first
\* dispatch on that same handle without closing or recreating it.
C8_HandleReusedAfterSuccess ==
    [][\A u \in Users :
         LET held == /\ served[u] # NoBrowser
                     /\ served[u] \in handles[u].open
                     /\ Has(browsers, u)
                     /\ Get(browsers, u) = served[u]
         IN  /\ (pc[u] = "dispatch" /\ pc'[u] = "idle" /\ result'[u] = "agent_text"
                 => /\ UNCHANGED <<browsers, handles>>
                    /\ served'[u] = agent_browser[u])
             /\ (/\ held
                 /\ \/ served[u] \notin handles'[u].open
                    \/ ~Has(browsers', u)
                    \/ Get(browsers', u) # served[u]
                 => sweep' # sweep \/ admin' # admin \/ served'[u] = NoBrowser)
             /\ (held /\ FirstPass(u)
                 => /\ pc'[u] = "dispatch"
                    /\ agent_browser'[u] = served[u]
                    /\ UNCHANGED <<browsers, handles>>)
      ]_vars

\* C8's case: three calls in a row, no cleanup and no eviction, and the third
\* dispatches on the open handle the map has held since the last success.
C8_Witness ==
    \E u \in Users :
        /\ calls = 3
        /\ admin_ops = 0
        /\ pc[u] = "dispatch"
        /\ served[u] # NoBrowser
        /\ agent_browser[u] = served[u]
        /\ served[u] \in handles[u].open
        /\ Get(browsers, u) = served[u]

\* C9: with the sweep running and at rest with nothing left to close, no user
\* without a call in progress has a lastActivity entry older than the timeout
\* (such an entry is one the sweep will never remove).
C9_SweepLeavesNoStaleEntry ==
    (/\ inactivity_check_running
     /\ sweep.pc = "sleep"
     /\ admin.op = "none"
     /\ SkipNothingToClean(BrowsersToClose) = <<>>)
    => \A u \in Users :
           pc[u] = "idle" /\ Has(last_activity_times, u)
           => ~(Get(last_activity_times, u) > inactivity_timeout)

\* C10: every execute_search call ends by returning one of the texts, whatever
\* the breakers' state, the outcome of the constructor, of the dispatch and of
\* the closes, and the shape of the agent's result; no exception leaves it.
C10_AlwaysReturnsText ==
    \A u \in Users :
        /\ pc[u] \in {"idle", "details", "init_sleep", "dispatch", "reset_close",
                      "reset_sleep"}
        /\ pc[u] = "idle" => result[u] \in ReturnedTexts \cup {"none"}

\* C10's case: the constructor raised on every attempt of a call, no browser
\* was ever created, and the call still returned the text of its handler.
C10_Witness ==
    \E u \in Users :
        /\ pc[u] = "idle"
        /\ result[u] = "error_text"
        /\ ~Has(browsers, u)
        /\ calls > 0

\* The literal messages of execute_search (254-458): none of them is built from
\* an exception.
FixedMessages ==
    {"blocked_general", "blocked_anthropic", "tripped_anthropic", "tripped_general",
     "browser_issue", "technical_issue", "overload_retry", "connection_retry",
     "max_retries_text"}

\* The texts of a dispatch that returned: what extract_final_result gives.
AgentTexts == {ExtractedText(shape) : shape \in AgentShapes}

\* The dispatch of user u ends in this step.
DispatchEnds(u) == pc[u] = "dispatch" /\ pc'[u] # "dispatch"

\* The dispatch of user u ends in this step by raising.
DispatchFails(u) == DispatchEnds(u) /\ result'[u] \notin AgentTexts

\* C11: the text returned by a call whose last attempt failed is one of the
\* fixed messages, never a text built from the exception.
C11_OnlyFixedFailureTexts ==
    \A u \in Users :
        pc[u] = "idle" /\ result[u] \notin AgentTexts \cup {"none"}
        => result[u] \in FixedMessages

\* C12: once initialize_browser has raised in a call, the only further step of
\* that call is its return: no other construction and no dispatch.
C12_InitFailureIsTerminal ==
    [][\A u \in Users :
         init_failed[u] /\ pc[u] # "idle"
         => \/ pc'[u] = "idle"
            \/ pc'[u] = pc[u] /\ retries'[u] = retries[u]
      ]_vars

\* C13: a call starts at most MAX_RETRIES + 1 dispatches, and every call in
\* progress returns.
C13_BoundedAttemptsThenReturn ==
    /\ [](\A u \in Users : dispatches[u] <= MAX_RETRIES + 1)
    /\ \A u \in Users : (pc[u] # "idle") ~> (pc[u] = "idle")

\* C13's case: the fourth dispatch of a call has failed and been reset; the
\* retries are used up and the call is about to return.
C13_Witness ==
    \E u \in Users :
        /\ pc[u] = "reset_sleep"
        /\ dispatches[u] = MAX_RETRIES + 1
        /\ retries[u] = MAX_RETRIES

C15_FatalCountsTowardGeneral ==
    [][\A u \in Users :
         DispatchFails(u) /\ result'[u] = "error_text"
         => circuit_failure_count' = circuit_failure_count + 1
      ]_vars

\* C16: a dispatch that returns leaves both failure counts at 0, whatever they
\* were and whichever user's dispatch it is.
C16_SuccessResetsCounts ==
    [][\A u \in Users :
         DispatchEnds(u) /\ result'[u] \in AgentTexts
         => anthropic_failures' = 0 /\ circuit_failure_count' = 0
      ]_vars

\* C16's case: one user's dispatch failed with an overload (both counts at 1),
\* the other user's dispatch then returned, and both counts are 0 while the
\* first user's call is still between its attempts.
C16_Witness ==
    \E u, v \in Users :
        /\ u # v
        /\ admin_ops = 0
        /\ pc[u] = "idle" /\ result[u] = "agent_text"
        /\ pc[v] = "reset_sleep" /\ result[v] = "overload_retry" /\ retries[v] = 0
        /\ dispatches[v] = 1
        /\ anthropic_failures = 0
        /\ circuit_failure_count = 0
        /\ calls = 2

\* The external operation `op` returns (or raises) in this step: at once, in the
\* step that invokes it, or in the step that ends its last await.
OpEnds(op) ==
    /\ op_result'.op = op
    /\ admin'.op = "none"
    /\ admin_ops' = admin_ops + 1 \/ admin.op # "none"

\* C17: cleanup(user_id) never raises, whether the user has no session, a
\* session already closed, or a handle whose close raises; when it returns the
\* user has no live handle, and invoked for a user with no live handle it
\* returns at once and leaves the session map, the handles and the bookkeeping
\* as they are: a second call in a row changes nothing.
C17_CleanupIdempotent ==
    [][/\ (OpEnds("cleanup_user") =>
             LET u == op_result'.user
             IN  /\ op_result'.status = "returned"
                 /\ ~(Has(browsers', u) /\ Get(browsers', u) # NoBrowser)
                 /\ (admin_ops' = admin_ops + 1 =>
                       /\ ~HasBrowser(u)
                       /\ op_result'.close = "none"
                       /\ UNCHANGED <<sessionVars, inactivity_check_running>>))
       /\ (admin_ops' = admin_ops + 1 /\ admin'.op = "cleanup_user"
           => HasBrowser(admin'.user))
      ]_vars

\* C17's case: two external operations have run, the later one a cleanup(user_id)
\* that found nothing live, after the handle of the user's successful call was
\* closed and its entry set to None.
C17_Witness ==
    \E u \in Users :
        /\ admin_ops = 2
        /\ op_result = Finished("cleanup_user", u, "returned", "none")
        /\ pc[u] = "idle"
        /\ result[u] = "agent_text"
        /\ served[u] # NoBrowser
        /\ handles[u] = [open |-> {}, closing |-> {}]
        /\ Has(browsers, u) /\ Get(browsers, u) = NoBrowser
        /\ ~Has(last_activity_times, u)

\* C18: when cleanup(user_id) or cleanup() returns for users that have no call
\* in progress, each targeted user has no live handle and no lastActivity and
\* no context entry.
C18_CleanupClearsBookkeeping ==
    [][\A u \in Users :
         /\ pc[u] = "idle"
         /\ \/ OpEnds("cleanup_user") /\ op_result'.user = u
            \/ OpEnds("cleanup_all")
         => /\ ~(Has(browsers', u) /\ Get(browsers', u) # NoBrowser)
            /\ ~Has(last_activity_times', u)
            /\ ~Has(current_contexts', u)
      ]_vars

\* C19: when the close awaited by cleanup(user_id), by
\* force_close_browser(user_id) or by the pre-close of initialize_browser ends,
\* by returning or by raising, the handle is closed for good, the user's map
\* entry is None, and the operation carries on: cleanup and force-close return,
\* initialize_browser goes on to its sleep and the construction; nothing is
\* raised to the caller.
C19_CloseFailureSwallowed ==
    [][admin.op \in {"cleanup_user", "force_user", "init_preclose"} /\ admin' # admin
       => /\ Has(browsers', admin.user)
          /\ Get(browsers', admin.user) = NoBrowser
          /\ admin.h \notin handles'[admin.user].open \cup handles'[admin.user].closing
          /\ op_result'.close \in CloseOutcomes
          /\ IF admin.op = "init_preclose"
             THEN /\ admin'.op = "init_sleep1"
                  /\ op_result'.status = "pending"
             ELSE /\ admin' = AdminIdle
                  /\ op_result' = Finished(admin.op, admin.user, "returned",
                                           op_result'.close)
      ]_vars

\* C19's case: the pre-close of initialize_browser raised, and the operation
\* went on to construct a new handle and returned it.
C19_Witness ==
    \E u \in Users :
        /\ op_result = Finished("initialize_browser", u, "returned", "raised")
        /\ HasBrowser(u)
        /\ Get(browsers, u) \in handles[u].open

\* C20: extend_timeout(user_id) returns normally and leaves the user with a
\* lastActivity entry stamped now, also when the user has no entry and no
\* session; it changes neither the session map nor any handle nor the breakers.
C20_ExtendTimeoutStamps ==
    [][OpEnds("extend_timeout") =>
         /\ op_result'.status = "returned"
         /\ Has(last_activity_times', op_result'.user)
         /\ Get(last_activity_times', op_result'.user) = 0
         /\ UNCHANGED <<browsers, handles, current_contexts, breakerVars,
                        inactivity_check_running>>
      ]_vars

\* C20's case: extend_timeout for a user that never called and has no session
\* has left a fresh lastActivity entry.
C20_Witness ==
    \E u \in Users :
        /\ op_result = Finished("extend_timeout", u, "returned", "none")
        /\ calls = 0
        /\ ~Has(browsers, u)
        /\ Has(last_activity_times, u)
        /\ Get(last_activity_times, u) = 0

\* ====================================================== side-effect-free code
\* The computations below read nothing of the service's state.  Each has a
\* specification of its own whose initial states are its inputs and whose one
\* action records the value the code computes for them in `calc`.
serviceVars == <<env, browsers, handles, last_activity_times, current_contexts,
                 inactivity_check_running, anthropic_failures, anthropic_circuit_open,
                 anthropic_circuit_open_time, circuit_open, circuit_open_time,
                 circuit_failure_count, pc, retries, result, agent_browser, keep_alive,
                 awaited_close, served, dispatches, init_failed, calls, sweep, admin,
                 admin_ops, op_result>>

\* The service is constructed and nothing calls it.
NoCallers ==
    [callers |-> {}, outcomes |-> {"success"}, shapes |-> {"str"}, creation |-> {TRUE}]

Max(a, b) == IF a >= b THEN a ELSE b

RECURSIVE Pow2(_)
Pow2(n) == IF n = 0 THEN 1 ELSE 2 * Pow2(n - 1)

\* ------------------------------------------------------------ retry back-off
\* Durations are in sixteenths of a second, so that a quarter of 2^n seconds
\* times a jitter factor in quarter steps is an integer.
MaxConfiguredRetries == 8       \* values of settings.MAX_RETRIES examined
Second == 16
JitterSteps == -4 .. 3          \* random.random() * 2 - 1, a value in [-1, 1), in quarters
NotSlept == -1

\* `delay = 2 ** retries; jitter = delay * 0.25 * (random.random() * 2 - 1);
\*  delay = max(1, delay + jitter)`
Delay(n, k) == Max(1 * Second, Pow2(n) * Second + Pow2(n) * k)

\* `retries` is incremented and compared with max_retries before the delay is
\* computed, so the sleep before retry n happens for n in 1..max_retries.
InitBackoff ==
    /\ Construction(NoCallers)
    /\ calc \in [fn : {"delay"}, max_retries : 0 .. MaxConfiguredRetries,
                 retries : 1 .. MaxConfiguredRetries, jitter : JitterSteps,
                 delay : {NotSlept}]
    /\ calc.retries <= calc.max_retries

Sleep ==
    /\ calc.fn = "delay"
    /\ calc.delay = NotSlept
    /\ calc' = [calc EXCEPT !.delay = Delay(calc.retries, calc.jitter)]
    /\ UNCHANGED serviceVars

SpecBackoff == InitBackoff /\ [][Sleep]_vars

\* C21: the delay slept before retry n is at most the ceiling of two minutes
\* for every n up to the configured max_retries and every jitter within 25 %,
\* and the jitter-free delay 2^n does not decrease as n grows.
C21_DelayWithinCeiling ==
    (calc.fn = "delay" /\ calc.delay # NotSlept)
        => /\ calc.delay <= 120 * Second
           /\ Delay(calc.retries - 1, 0) <= Delay(calc.retries, 0)

\* ---------------------------------------------------------- task prompt: text
\* generate_task_prompt works on text.  A text is a sequence of tokens: a
\* word, a run of digits, a clock time "H[:MM]am|pm", and in an assistant's
\* message an emphasised name, alone or as an item of a list.  `cap` says that
\* the token has capital letters, which lower() removes.
NoMinutes == -1                 \* a clock time written without ":MM"

Tok(k, w, n, mm, ap, cap) == [k |-> k, w |-> w, n |-> n, mm |-> mm, ap |-> ap, cap |-> cap]

W(w) == Tok("word", w, 0, 0, "", FALSE)
Cap(w) == Tok("word", w, 0, 0, "", TRUE)
Num(n) == Tok("num", "", n, 0, "", FALSE)
Clock(h, mm, ap) == Tok("clock", "", h, mm, ap, FALSE)
Item(n, w) == Tok("item", w, n, 0, "", TRUE)        \* "n. **w**"
Bullet(w) == Tok("bullet", w, 0, 0, "", TRUE)       \* "- **w**"
Bold(w) == Tok("bold", w, 0, 0, "", TRUE)           \* "**w**"

\* Python's None, and every value the function derives from text as the tuple
\* of its parts: a date range is its days, a time is <<hour, minutes>>, a run
\* of digits is <<n>>, a name is <<w>>.  Only their truth value and these
\* parts are used by the code.
None == <<>>

\* `s.lower()`
Lower(s) == [i \in DOMAIN s |-> [s[i] EXCEPT !.cap = FALSE]]

\* The word w, in lower case, is at position i of s.
IsWord(s, i, w) == i \in DOMAIN s /\ s[i].k = "word" /\ s[i].w = w /\ ~s[i].cap

\* `"w1 w2" in s`
Contains(s, ws) ==
    \E i \in DOMAIN s : \A j \in DOMAIN ws : IsWord(s, i + j - 1, ws[j])

\* `\d+` matches at the start of token i.
HasDigits(s, i) == i \in DOMAIN s /\ s[i].k \in {"num", "clock"}

\* re.search returns the leftmost match.
Leftmost(S) == IF S = {} THEN 0 ELSE CHOOSE i \in S : \A j \in S : i <= j
Rightmost(S) == IF S = {} THEN 0 ELSE CHOOSE i \in S : \A j \in S : i >= j

\* Where `w1\s*w2\s*(\d+)` matches: the positions of the digits.
Following(s, ws) ==
    {i \in DOMAIN s : /\ HasDigits(s, i)
                      /\ \A j \in DOMAIN ws : IsWord(s, i - Len(ws) + j - 1, ws[j])}

\* party_size_patterns, in the order of the list.
PartyMatches(p, s) ==
    CASE p = 1 -> {i \in DOMAIN s : s[i].k = "num" /\ IsWord(s, i + 1, "people")}
      [] p = 2 -> Following(s, <<"for">>)
      [] p = 3 -> Following(s, <<"party", "of">>)
      [] p = 4 -> Following(s, <<"group", "of">>)

\* `for pattern in party_size_patterns: ... party_size = match.group(1); break`
PartySize(s) ==
    LET ps == {p \in 1 .. 4 : PartyMatches(p, s) # {}}
    IN  IF ps = {} THEN None
        ELSE <<s[Leftmost(PartyMatches(Leftmost(ps), s))].n>>

\* time_patterns, in the order of the list.
TimeMatches(p, s) ==
    CASE p = 1 -> {i \in DOMAIN s : s[i].k = "clock"}
      [] p = 2 -> {i \in Following(s, <<"at">>) : s[i].k = "clock"}
      [] p = 3 -> Following(s, <<"at">>)

\* The body of the loop over time_patterns: the first two patterns have the
\* am|pm group, the third has one group only.
TimeOf(p, t) ==
    IF p \in {1, 2}
    THEN <<IF t.ap = "pm" /\ t.n < 12 THEN t.n + 12 ELSE t.n,
           IF t.mm = NoMinutes THEN 0 ELSE t.mm>>
    ELSE <<t.n, 0>>

\* The loop over the query has no break: the last pattern that matches decides.
TimeInQuery(s) ==
    LET ps == {p \in 1 .. 3 : TimeMatches(p, s) # {}}
    IN  IF ps = {} THEN None
        ELSE TimeOf(Rightmost(ps), s[Leftmost(TimeMatches(Rightmost(ps), s))])

\* The loop over a previous query breaks at the first pattern that matches.
TimeInPrevious(s) ==
    LET ps == {p \in 1 .. 3 : TimeMatches(p, s) # {}}
    IN  IF ps = {} THEN None
        ELSE TimeOf(Leftmost(ps), s[Leftmost(TimeMatches(Leftmost(ps), s))])

\* A day is its number counted from a Monday, so that day % 7 is weekday().
\* `dates`: one day, or Saturday "to" Sunday.
Dates(s, today) ==
    LET wd == today % 7
        saturday == today + ((5 - wd) % 7)
    IN  IF Contains(s, <<"next", "weekend">>) THEN <<saturday + 7, saturday + 7 + 1>>
        ELSE IF Contains(s, <<"this", "weekend">>) THEN <<saturday, saturday + 1>>
        ELSE IF Contains(s, <<"saturday">>) THEN <<saturday>>
        ELSE IF Contains(s, <<"sunday">>) THEN <<today + ((6 - wd) % 7)>>
        ELSE IF Contains(s, <<"this", "friday">>) THEN <<today + ((4 - wd) % 7)>>
        ELSE IF Contains(s, <<"tomorrow">>) THEN <<today + 1>>
        ELSE None

\* history_context is a sequence of lines.  `who` is the prefix the line starts
\* with ("User" or "Assistant"), or "" for a further line of a message that
\* holds line breaks.
Line(who, text) == [who |-> who, text |-> text]

\* `previous_queries`: the lines that start with "User:".
PreviousQueries(history) == SelectSeq(history, LAMBDA l : l.who = "User")

\* `for prev_query in reversed(previous_queries)`: a field still unset is
\* looked for in the line, and the loop ends once both are set.
RECURSIVE CarryOver(_, _, _)
CarryOver(qs, time, party_size) ==
    IF qs = <<>> THEN <<time, party_size>>
    ELSE LET prev_query == Lower(qs[Len(qs)].text)
             t == IF time = None THEN TimeInPrevious(prev_query) ELSE time
             p == IF party_size = None THEN PartySize(prev_query) ELSE party_size
         IN  IF t # None /\ p # None THEN <<t, p>>
             ELSE CarryOver(SubSeq(qs, 1, Len(qs) - 1), t, p)

\* Time and party size after the look at the history.
TimeAndParty(query, history) ==
    LET q == Lower(query)
    IN  IF Contains(q, <<"same">>)
        THEN CarryOver(PreviousQueries(history), TimeInQuery(q), PartySize(q))
        ELSE <<TimeInQuery(q), PartySize(q)>>

reference_indicators ==
    {<<"first">>, <<"second">>, <<"third">>, <<"1st">>, <<"2nd">>, <<"3rd">>,
     <<"that", "one">>, <<"last", "one">>}

IsReferenceRequest(query) ==
    \E indicator \in reference_indicators : Contains(Lower(query), indicator)

\* `assistant_messages`: the loop over the lines.  current is <<>> for the
\* empty string and <<text>> for a message under construction.
RECURSIVE AssistantMessages(_, _, _, _)
AssistantMessages(lines, messages, current, is_assistant) ==
    IF lines = <<>>
    THEN IF current # <<>> /\ is_assistant THEN Append(messages, current[1]) ELSE messages
    ELSE LET line == Head(lines)
             closed == IF current # <<>> THEN Append(messages, current[1]) ELSE messages
         IN  IF line.who = "Assistant"
             THEN AssistantMessages(Tail(lines), closed, <<line.text>>, TRUE)
             ELSE IF line.who = "User"
             THEN AssistantMessages(Tail(lines), closed, <<>>, FALSE)
             ELSE IF is_assistant
             THEN AssistantMessages(Tail(lines), messages, <<current[1] \o line.text>>, TRUE)
             ELSE AssistantMessages(Tail(lines), messages, current, is_assistant)

\* `numbered_items`: the names of the numbered items of the message, or, when
\* it has none, of its bullet items.
NumberedItems(message) ==
    LET numbered == SelectSeq(message, LAMBDA t : t.k = "item")
        bullets == SelectSeq(message, LAMBDA t : t.k = "bullet")
        found == IF numbered # <<>> THEN numbered ELSE bullets
    IN  [i \in DOMAIN found |-> found[i].w]

\* `item_index`, as <<index>>, or None.
ItemIndex(query) ==
    LET q == Lower(query)
        digits == {i \in DOMAIN query : HasDigits(query, i)}
    IN  IF Contains(q, <<"first">>) \/ Contains(q, <<"1st">>) THEN <<0>>
        ELSE IF Contains(q, <<"second">>) \/ Contains(q, <<"2nd">>) THEN <<1>>
        ELSE IF Contains(q, <<"third">>) \/ Contains(q, <<"3rd">>) THEN <<2>>
        ELSE IF Contains(q, <<"fourth">>) \/ Contains(q, <<"4th">>) THEN <<3>>
        ELSE IF digits # {} THEN <<query[Leftmost(digits)].n - 1>>
        ELSE None

\* `numbered_items[item_index]`; Python counts a negative index from the end.
ReferencedItem(query, history) ==
    LET messages == AssistantMessages(history, <<>>, <<>>, FALSE)
        items == NumberedItems(messages[Len(messages)])
        index == ItemIndex(query)
    IN  IF ~IsReferenceRequest(query) \/ messages = <<>> THEN None
        ELSE IF index # None /\ items # <<>> /\ index[1] < Len(items)
        THEN <<items[IF index[1] >= 0 THEN index[1] + 1 ELSE Len(items) + index[1] + 1]>>
        ELSE None

\* `restaurant_mentions`: the emphasised names on the lines that start with
\* "Assistant:".
RECURSIVE RestaurantMentions(_)
RestaurantMentions(lines) ==
    IF lines = <<>> THEN <<>>
    ELSE LET bold == SelectSeq(Head(lines).text,
                               LAMBDA t : t.k \in {"item", "bullet", "bold"})
         IN  (IF Head(lines).who = "Assistant"
              THEN [i \in DOMAIN bold |-> bold[i].w] ELSE <<>>)
             \o RestaurantMentions(Tail(lines))

\* Mutation of NamedEntity: the names are matched for a reference request too.
NamedEntityOfAnyQuery(query, history) ==
    LET mentions == RestaurantMentions(history)
        inQuery == {i \in DOMAIN mentions :
                        \E j \in DOMAIN query : query[j].k = "word" /\ query[j].w = mentions[i]}
    IN  IF inQuery = {} THEN None ELSE <<mentions[Leftmost(inQuery)]>>

\* `named_entity`: the first mention with `restaurant.lower() in query.lower()`.
NamedEntity(query, history) ==
    LET mentions == RestaurantMentions(history)
        inQuery == {i \in DOMAIN mentions :
                        \E j \in DOMAIN query : query[j].k = "word" /\ query[j].w = mentions[i]}
    IN  IF IsReferenceRequest(query) \/ inQuery = {} THEN None
        ELSE <<mentions[Leftmost(inQuery)]>>

\* What a prompt says about a field: the value, or the literal text put in
\* its place.  Omitted: the prompt has no such line, or leaves it empty.
Shown(v, literal) ==
    IF v # None THEN [value |-> v, literal |-> ""] ELSE [value |-> None, literal |-> literal]

Omitted == Shown(None, "")

\* The three prompts, as what they say about date, time and party size: the
\* lines under CURRENT REQUEST, the reminder of step 1 and the details of the
\* availability or booking step.
Prompt(task_type, dates, time, party_size) ==
    LET mentioned == [dates |-> Shown(dates, ""), time |-> Shown(time, ""),
                      party_size |-> Shown(party_size, "")]
    IN  IF task_type = "search"
        THEN [kind |-> "search", mentioned |-> mentioned,
              reminder |-> [dates |-> Omitted,
                            time |-> Shown(time, "the specified time"),
                            party_size |-> Shown(party_size, "their party")],
              details |-> [dates |-> Shown(dates, "this weekend"),
                           time |-> Shown(time, "9pm"),
                           party_size |-> Shown(party_size, "3")]]
        ELSE IF task_type = "booking"
        THEN [kind |-> "booking", mentioned |-> mentioned,
              reminder |-> [dates |-> Omitted, time |-> Omitted, party_size |-> Omitted],
              details |-> [dates |-> Shown(dates, "Not specified"),
                           time |-> Shown(time, "Not specified"),
                           party_size |-> Shown(party_size, "Not specified")]]
        ELSE [kind |-> "default", mentioned |-> mentioned,
              reminder |-> [dates |-> Omitted, time |-> Omitted, party_size |-> Omitted],
              details |-> [dates |-> Omitted, time |-> Omitted, party_size |-> Omitted]]

\* What generate_task_prompt derives from its arguments and the current day.
TaskContext(query, task_type, history, today) ==
    LET tp == TimeAndParty(query, history)
        dates == Dates(Lower(query), today)
    IN  [dates |-> dates, time |-> tp[1], party_size |-> tp[2],
         is_reference_request |-> IsReferenceRequest(query),
         referenced_item |-> ReferencedItem(query, history),
         named_entity |-> NamedEntity(query, history),
         prompt |-> Prompt(task_type, dates, tp[1], tp[2])]

\* --------------------------------------------------- task prompt: the inputs
Args(query, task_type, history, today) ==
    [query |-> query, task_type |-> task_type, history |-> history, today |-> today]

Week == 0 .. 6                  \* the current day: a Monday, ..., a Sunday
TaskTypes == {"search", "booking", "info"}

\* Dates: one phrase of the date vocabulary, on every day of the week.
DatePhrases ==
    {<<W("tomorrow")>>, <<W("tonight")>>, <<W("this"), W("weekend")>>,
     <<W("next"), W("weekend")>>, <<W("this"), W("friday")>>}
    \cup {<<W(d)>> : d \in {"monday", "tuesday", "wednesday", "thursday", "friday",
                           "saturday", "sunday"}}

DateInputs ==
    {Args(<<W("availability")>> \o phrase, "search", <<>>, today) :
        phrase \in DatePhrases, today \in Week}

\* Times: one clock time, with and without "at" before it.
ClockTimes == {Clock(h, mm, ap) : h \in 1 .. 12, mm \in {NoMinutes, 30}, ap \in {"am", "pm"}}

TimeInputs ==
    {Args(<<W("dinner")>> \o at \o <<t>>, "search", <<>>, 0) :
        at \in {<<>>, <<W("at")>>}, t \in ClockTimes}

\* Prompts: each of date, time and party size given or not, for each task type.
DetailInputs ==
    {Args(<<W("table")>> \o party \o time \o date, task_type, <<>>, 0) :
        party \in {<<>>, <<W("for"), Num(4)>>},
        time \in {<<>>, <<Clock(7, NoMinutes, "pm")>>},
        date \in {<<>>, <<W("tomorrow")>>},
        task_type \in TaskTypes}

\* References: the last assistant turn lists A, B, C, or there is no list.
Opening == <<Line("User", <<W("find"), W("restaurants")>>)>>

ListHistories ==
    {Opening \o <<Line("Assistant", <<W("here"), W("are"), W("three")>>),
                  Line("", <<Item(1, "A")>>), Line("", <<Item(2, "B")>>),
                  Line("", <<Item(3, "C")>>)>>,
     Opening \o <<Line("Assistant", <<Item(1, "A"), Item(2, "B"), Item(3, "C")>>)>>,
     Opening \o <<Line("Assistant", <<W("options")>>),
                  Line("", <<Bullet("A")>>), Line("", <<Bullet("B")>>),
                  Line("", <<Bullet("C")>>)>>,
     Opening \o <<Line("Assistant", <<Item(1, "A"), Item(2, "B"), Item(3, "C")>>),
                  Line("User", <<W("thanks")>>)>>}

NoListHistories ==
    {<<>>,
     Opening,
     Opening \o <<Line("Assistant", <<W("what"), W("cuisine")>>)>>}

ReferenceQueries ==
    {<<W("the"), W("second"), W("one")>>,
     <<W("book"), W("the"), W("second"), W("one")>>,
     <<W("the"), W("last"), W("one")>>,
     <<W("book"), W("the"), W("last"), W("one"), W("please")>>,
     <<W("the"), W("first"), W("one")>>,
     <<W("that"), W("one"), W("for"), Num(2)>>}

ReferenceInputs ==
    {Args(query, "booking", history, 0) :
        query \in ReferenceQueries, history \in ListHistories \cup NoListHistories}

\* The booking scenario: the assistant has mentioned Yardbird.
ScenarioQuery ==
    <<W("book"), Cap("Yardbird"), W("for"), Num(2), W("people"), W("at"),
      Clock(9, NoMinutes, "pm"), W("tomorrow")>>

ScenarioHistories ==
    {Opening \o <<Line("Assistant", <<W("try"), Bold("Yardbird")>>)>>,
     Opening \o <<Line("Assistant", <<Item(1, "Amber"), Item(2, "Yardbird")>>)>>}

ScenarioInputs ==
    {Args(ScenarioQuery, task_type, history, today) :
        task_type \in {"search", "booking"}, history \in ScenarioHistories, today \in Week}

\* Carry-over: two earlier user turns, each with a time, a party size, both or
\* neither, the time possibly on a second line of the message.
UserTurn(kind, h, n) ==
    CASE kind = "neither" -> <<Line("User", <<W("hello")>>)>>
      [] kind = "time" -> <<Line("User", <<W("dinner"), Clock(h, NoMinutes, "pm")>>)>>
      [] kind = "party" -> <<Line("User", <<W("table"), W("for"), Num(n)>>)>>
      [] kind = "both" -> <<Line("User", <<Num(n), W("people"), Clock(h, 30, "pm")>>)>>
      [] kind = "lines" -> <<Line("User", <<W("table"), W("for"), Num(n)>>),
                             Line("", <<Clock(h, NoMinutes, "pm")>>)>>

TurnKinds == {"neither", "time", "party", "both", "lines"}

Reply == <<Line("Assistant", <<W("sure")>>)>>

SameHistories ==
    {<<>>}
    \cup {UserTurn(older, 5, 3) \o Reply \o UserTurn(recent, 8, 4) \o Reply :
            older \in TurnKinds, recent \in TurnKinds}

SameQueries ==
    {<<W("same"), W("time"), W("same"), W("party")>>,
     <<W("same"), W("time"), W("for"), Num(6)>>,
     <<W("same"), W("party"), Clock(7, NoMinutes, "pm")>>,
     <<W("same"), W("again")>>}

SameInputs ==
    {Args(query, "booking", history, 0) : query \in SameQueries, history \in SameHistories}

\* A reference together with a name: the query has a reference indicator and
\* names Yardbird, which the assistant has mentioned, in a list or not.
NamedReferenceQueries ==
    {<<W("is"), Cap("Yardbird"), W("the"), W("first"), W("one")>>,
     <<W("book"), W("that"), W("one"), Cap("Yardbird")>>,
     <<W("the"), W("third"), W("one"), W("not"), Cap("Yardbird")>>}

NamedReferenceInputs ==
    {Args(query, task_type, history, 0) :
        query \in NamedReferenceQueries, task_type \in TaskTypes,
        history \in ScenarioHistories \cup {<<>>, Opening}}

\* A list that is not in the last assistant turn: the assistant has listed A, B,
\* C and has then answered a further question without a list, or with a newer
\* list D, E.
FollowUp == <<Line("User", <<W("any"), W("with"), W("a"), W("terrace")>>)>>

EarlierListHistories ==
    {h \o FollowUp \o later :
        h \in ListHistories,
        later \in {<<Line("Assistant", <<W("all"), W("of"), W("them")>>)>>,
                   <<Line("Assistant", <<W("yes"), Bold("B"), W("has"), W("one")>>)>>,
                   <<Line("Assistant", <<Item(1, "D"), Item(2, "E")>>)>>}}

EarlierListInputs ==
    {Args(query, "booking", history, 0) :
        query \in {<<W("the"), W("second"), W("one")>>,
                   <<W("book"), W("the"), W("first"), W("one")>>,
                   <<W("the"), W("3rd"), W("option")>>},
        history \in EarlierListHistories}

PromptInputs ==
    DateInputs \cup TimeInputs \cup DetailInputs \cup ReferenceInputs \cup ScenarioInputs
    \cup SameInputs \cup NamedReferenceInputs \cup EarlierListInputs

InitPrompt ==
    /\ Construction(NoCallers)
    /\ calc \in {[fn |-> "prompt", args |-> a, done |-> FALSE, out |-> None] :
                    a \in PromptInputs}

GenerateTaskPrompt ==
    /\ calc.fn = "prompt"
    /\ ~calc.done
    /\ calc' = [calc EXCEPT !.done = TRUE,
                            !.out = TaskContext(calc.args.query, calc.args.task_type,
                                                calc.args.history, calc.args.today)]
    /\ UNCHANGED serviceVars

SpecPrompt == InitPrompt /\ [][GenerateTaskPrompt]_vars

\* generate_task_prompt has returned for arguments of the set S.
Prompted(S) == calc.fn = "prompt" /\ calc.done /\ calc.args \in S

\* ---------------------------------------------------- task prompt: the claims
\* C22: with a last assistant turn that lists the emphasised items A, B, C in
\* this order, a query with "the second one" resolves the referenced item to B
\* and a query with "the last one" resolves it to C; a reference query with no
\* enumerated list before it leaves the referenced item unset.
C22_ReferenceResolved ==
    Prompted(ReferenceInputs)
        => LET q == Lower(calc.args.query)
           IN  /\ (calc.args.history \in ListHistories
                        /\ Contains(q, <<"the", "second", "one">>))
                    => calc.out.referenced_item = <<"B">>
               /\ (calc.args.history \in ListHistories
                        /\ Contains(q, <<"the", "last", "one">>))
                    => calc.out.referenced_item = <<"C">>
               /\ calc.args.history \in NoListHistories
                    => calc.out.referenced_item = None

\* C23: "book Yardbird for 2 people at 9pm tomorrow", Yardbird having been
\* mentioned by the assistant, yields named entity Yardbird, party size 2,
\* time 21:00 and tomorrow's date, and no reference resolution.
C23_BookingScenario ==
    Prompted(ScenarioInputs)
        => /\ calc.out.named_entity = <<"Yardbird">>
           /\ calc.out.party_size = <<2>>
           /\ calc.out.time = <<21, 0>>
           /\ calc.out.dates = <<calc.args.today + 1>>
           /\ ~calc.out.is_reference_request
           /\ calc.out.referenced_item = None

\* C24: a clock time H[:MM] am|pm with H in 1..12 in the query resolves to its
\* 24-hour equivalent (pm adds 12 except for 12 pm, 12 am is hour 0, minutes
\* default to 00), with or without "at" before it.
C24_ClockTo24Hour ==
    Prompted(TimeInputs)
        => LET q == calc.args.query
               t == q[CHOOSE i \in DOMAIN q : q[i].k = "clock"]
           IN  calc.out.time = <<(t.n % 12) + (IF t.ap = "pm" THEN 12 ELSE 0),
                                 IF t.mm = NoMinutes THEN 0 ELSE t.mm>>

\* C25: for the search and the booking prompt, a date, time or party size
\* that is unresolved is presented as not specified, and the prompt holds no
\* concrete default value for it.
C25_UnresolvedNotSpecified ==
    (Prompted(DetailInputs) /\ calc.args.task_type \in {"search", "booking"})
        => \A f \in {"dates", "time", "party_size"} :
              calc.out[f] = None
                  => /\ calc.out.prompt.details[f].literal = "Not specified"
                     /\ calc.out.prompt.reminder[f].literal \notin {"this weekend", "9pm", "3"}

\* The user's turns of a history, each with all of its lines.
RECURSIVE UserTurns(_, _, _)
UserTurns(lines, turns, is_user) ==
    IF lines = <<>> THEN turns
    ELSE LET line == Head(lines)
         IN  IF line.who = "User"
             THEN UserTurns(Tail(lines), Append(turns, line.text), TRUE)
             ELSE IF line.who = "" /\ is_user
             THEN UserTurns(Tail(lines),
                            [turns EXCEPT ![Len(turns)] = @ \o line.text], TRUE)
             ELSE UserTurns(Tail(lines), turns, FALSE)

\* C26: when the query contains "same", a time or party size missing from the
\* query is that of the most recent earlier user turn in which the pattern
\* matches; one found in the query itself is kept; with no such turn the
\* field stays unset.
C26_SameCarriesOver ==
    Prompted(SameInputs)
        => LET q == Lower(calc.args.query)
               turns == UserTurns(calc.args.history, <<>>, FALSE)
               withTime == {i \in DOMAIN turns : TimeInPrevious(Lower(turns[i])) # None}
               withParty == {i \in DOMAIN turns : PartySize(Lower(turns[i])) # None}
           IN  /\ calc.out.time =
                     IF TimeInQuery(q) # None THEN TimeInQuery(q)
                     ELSE IF withTime = {} THEN None
                     ELSE TimeInPrevious(Lower(turns[Rightmost(withTime)]))
               /\ calc.out.party_size =
                     IF PartySize(q) # None THEN PartySize(q)
                     ELSE IF withParty = {} THEN None
                     ELSE PartySize(Lower(turns[Rightmost(withParty)]))

\* C27: every phrase of the date vocabulary, on every day of the week, sets a
\* date that is not earlier than today; "tomorrow" is today + 1 and "next
\* weekend" starts 7 days after the Saturday of "this weekend".
C27_DatePhrases ==
    Prompted(DateInputs)
        => LET q == calc.args.query
               today == calc.args.today
               dates == calc.out.dates
           IN  /\ dates # None
               /\ \A i \in DOMAIN dates : dates[i] >= today
               /\ Contains(q, <<"tomorrow">>) => dates = <<today + 1>>
               /\ Contains(q, <<"next", "weekend">>)
                    => dates[1] = Dates(<<W("this"), W("weekend")>>, today)[1] + 7

\* ------------------------------------------------------ extract_final_result
\* The agent's outcome: a plain string, or an object whose all_results is a
\* list of step results.  extracted_content "" stands for None and for the
\* empty string, which the code does not tell apart.
MaxSteps == 3
Contents == {"", "a", "b"}
StepResults == [is_done : BOOLEAN, extracted_content : Contents]

AgentResults ==
    {[kind |-> "str", text |-> t, all_results |-> <<>>] : t \in Contents}
    \cup {[kind |-> "history", text |-> "", all_results |-> s] :
            s \in UNION {[1 .. n -> StepResults] : n \in 0 .. MaxSteps}}

\* Mutation of FinalResult: the last step with content, done or not.
LastWithContent(agent_result) ==
    LET steps == agent_result.all_results
        actions_with_content == SelectSeq(steps, LAMBDA r : r.extracted_content # "")
    IN  IF agent_result.kind = "str" THEN agent_result.text
        ELSE IF actions_with_content # <<>>
        THEN actions_with_content[Len(actions_with_content)].extracted_content
        ELSE "str(agent_result)"

\* The try block of extract_final_result, for step results that carry
\* is_done and extracted_content only and an outcome without `result` and
\* `message`: with no content at all it ends at `return str(agent_result)`.
FinalResult(agent_result) ==
    LET steps == agent_result.all_results
        completed_actions ==
            SelectSeq(steps, LAMBDA r : r.is_done /\ r.extracted_content # "")
        actions_with_content == SelectSeq(steps, LAMBDA r : r.extracted_content # "")
    IN  IF agent_result.kind = "str" THEN agent_result.text
        ELSE IF completed_actions # <<>>
        THEN completed_actions[Len(completed_actions)].extracted_content
        ELSE IF actions_with_content # <<>>
        THEN actions_with_content[Len(actions_with_content)].extracted_content
        ELSE "str(agent_result)"

InitExtract ==
    /\ Construction(NoCallers)
    /\ calc \in {[fn |-> "extract", agent_result |-> r, done |-> FALSE, out |-> ""] :
                    r \in AgentResults}

ExtractFinalResult ==
    /\ calc.fn = "extract"
    /\ ~calc.done
    /\ calc' = [calc EXCEPT !.done = TRUE, !.out = FinalResult(calc.agent_result)]
    /\ UNCHANGED serviceVars

SpecExtract == InitExtract /\ [][ExtractFinalResult]_vars

\* C28: extract_final_result returns a plain string unchanged; for an
\* outcome with step results it returns the content of the last step that is
\* done and has content, wherever steps that are not done but have content
\* stand; only when no done step has content does it return the content of
\* the last step that has any.
C28_LastDoneContentWins ==
    (calc.fn = "extract" /\ calc.done)
        => LET r == calc.agent_result
               steps == r.all_results
               done == {i \in DOMAIN steps :
                            steps[i].is_done /\ steps[i].extracted_content # ""}
               any == {i \in DOMAIN steps : steps[i].extracted_content # ""}
           IN  /\ r.kind = "str" => calc.out = r.text
               /\ (r.kind = "history" /\ done # {})
                    => calc.out = steps[Rightmost(done)].extracted_content
               /\ (r.kind = "history" /\ done = {} /\ any # {})
                    => calc.out = steps[Rightmost(any)].extracted_content

\* A done step with content "a" is followed by a step that is not done and
\* has content "b", and "a" is returned.
C28_Witness ==
    /\ calc.fn = "extract" /\ calc.done
    /\ calc.agent_result.all_results =
           <<[is_done |-> FALSE, extracted_content |-> "b"],
             [is_done |-> TRUE, extracted_content |-> "a"],
             [is_done |-> FALSE, extracted_content |-> "b"]>>
    /\ calc.out = "a"

\* ------------------------------------------- breakers and the retry loop
\* The dispatch of user u ends in this step with an overload failure: the only
\* step that adds to the provider breaker's count.
OverloadFails(u) == DispatchEnds(u) /\ anthropic_failures' = anthropic_failures + 1

\* What an overload failure does when it brings a breaker to its threshold:
\* that breaker's message is returned from the same attempt.
TripReturns(u) ==
    /\ anthropic_failures' >= anthropic_failure_threshold
         => pc'[u] = "idle" /\ result'[u] = "tripped_anthropic"
    /\ (anthropic_failures' < anthropic_failure_threshold
            /\ circuit_failure_count' >= circuit_reset_threshold)
         => pc'[u] = "idle" /\ result'[u] = "tripped_general"

\* Both breakers are below their thresholds after the step.
StaysClosed ==
    /\ anthropic_failures' < anthropic_failure_threshold
    /\ circuit_failure_count' < circuit_reset_threshold

\* C29: an overload failure that brings a breaker to its threshold makes the
\* call return that breaker's message from the same attempt, with no further
\* dispatch or back-off; when the breakers stay closed the call goes on to
\* retry, so that no call returns with the text of an overload failure that
\* was to be retried.
C29_OverloadRetriesUnlessTripped ==
    [][\A u \in Users :
         /\ OverloadFails(u)
              => /\ TripReturns(u)
                 /\ StaysClosed => pc'[u] # "idle"
         /\ (pc[u] # "idle" /\ pc'[u] = "idle") => result'[u] # "overload_retry"
      ]_vars

\* C29, amended: an overload failure that brings a breaker to its threshold
\* makes the call return that breaker's message from the same attempt; when
\* the breakers stay closed the call resets the browser, and then retries if
\* it has made fewer than max_retries retries and otherwise returns the
\* 'let me try again' text without another dispatch.
C29_OverloadRetriesWhileBudgetLasts ==
    [][\A u \in Users :
         /\ OverloadFails(u)
              => /\ TripReturns(u)
                 /\ StaysClosed
                      => /\ pc'[u] \in {"reset_close", "reset_sleep"}
                         /\ result'[u] = "overload_retry"
                         /\ retries'[u] = retries[u]
                         /\ dispatches'[u] = dispatches[u]
         /\ (/\ pc[u] = "reset_sleep"
             /\ result[u] = "overload_retry"
             /\ (pc'[u] # pc[u] \/ retries'[u] # retries[u]))
              => IF retries[u] < MAX_RETRIES
                 THEN pc'[u] # "idle" /\ retries'[u] = retries[u] + 1
                 ELSE pc'[u] = "idle" /\ result'[u] = "overload_retry"
      ]_vars

\* C29's cases: an earlier call tripped the provider breaker and returned; in
\* this call a first dispatch failed with an overload below the thresholds
\* and the second dispatch is in flight.
C29_Witness ==
    /\ admin_ops = 0
    /\ anthropic_circuit_open_time # NoTime
    /\ \E u \in Users :
         /\ pc[u] = "dispatch"
         /\ dispatches[u] = 2
         /\ retries[u] = 1
         /\ result[u] = "overload_retry"

\* reset_circuit_breaker is invoked in this step.
ResetStep == admin_ops' = admin_ops + 1 /\ op_result'.op = "reset_circuit_breaker"

\* C30: an Open breaker is closed only by a call that starts once the cooldown
\* has elapsed or by reset_circuit_breaker; a dispatch that succeeds sets both
\* failure counts to 0 and leaves the breakers' open flags and stamps as they
\* are, so a breaker that is Open stays Open for the rest of its cooldown.
C30_OpenUntilCooldownOrReset ==
    [][/\ (circuit_open /\ ~circuit_open')
            => \/ CallStarts /\ ~CooldownActive(circuit_open_time, circuit_cooldown_period)
               \/ ResetStep
       /\ (anthropic_circuit_open /\ ~anthropic_circuit_open')
            => \/ CallStarts /\ ~CooldownActive(anthropic_circuit_open_time,
                                                anthropic_circuit_reset_after)
               \/ ResetStep
       /\ \A u \in Users :
            (DispatchEnds(u) /\ ~DispatchFails(u))
                => /\ anthropic_failures' = 0
                   /\ circuit_failure_count' = 0
                   /\ UNCHANGED <<circuit_open, circuit_open_time,
                                  anthropic_circuit_open, anthropic_circuit_open_time>>
      ]_vars

\* C30's case: the provider breaker is Open within its cooldown and the counts
\* are back at 0, by the success of a dispatch that was in flight when the
\* breaker opened.
C30_Witness ==
    /\ admin_ops = 0
    /\ anthropic_circuit_open
    /\ CooldownActive(anthropic_circuit_open_time, anthropic_circuit_reset_after)
    /\ anthropic_failures = 0
    /\ circuit_failure_count = 0
    /\ \E u \in Users : pc[u] = "idle" /\ result[u] = "agent_text"

\* ------------------------------------------------------ blocked calls, frames
\* An execute_search call starts in this step and returns in it: it is blocked.
BlockedStart == CallStarts /\ pc' = pc

\* What a blocked call leaves alone apart from the breakers: no dispatch, no
\* handle created or closed, and no entry touched but the caller's stamp.
BlockedFrame ==
    /\ UNCHANGED <<browsers, handles, current_contexts, agent_browser, dispatches,
                   served, keep_alive, awaited_close>>
    /\ \E u \in Users :
         /\ result'[u] \in {"blocked_general", "blocked_anthropic"}
         /\ \A v \in Users \ {u} : result'[v] = result[v]
         /\ last_activity_times' = Put(last_activity_times, u, Now)

\* C31: a call that an Open breaker blocks starts no dispatch, creates or
\* closes no handle and leaves the state, stamp and failure count of both
\* breakers unchanged; it only refreshes the caller's last-activity stamp.
C31_BlockedCallChangesNothing ==
    [][BlockedStart => BlockedFrame /\ UNCHANGED breakerVars]_vars

\* C31, amended: as above, except that a call blocked by the provider breaker
\* has first tested the general breaker, and has closed it with count 0 if it
\* was Open past its cooldown; the provider breaker, and the general breaker
\* of a call that it blocks, are unchanged.
C31_BlockedCallOnlyClosesCooledGeneral ==
    [][BlockedStart =>
         /\ BlockedFrame
         /\ UNCHANGED <<anthropic_failures, anthropic_circuit_open,
                        anthropic_circuit_open_time, circuit_open_time>>
         /\ IF circuit_open /\ circuit_open_time >= circuit_cooldown_period
            THEN ~circuit_open' /\ circuit_failure_count' = 0
            ELSE UNCHANGED <<circuit_open, circuit_failure_count>>
      ]_vars

\* C31's case: a call was blocked by the provider breaker while the general
\* breaker, opened earlier, is closed with count 0.
C31_Witness ==
    /\ admin_ops = 0
    /\ anthropic_circuit_open
    /\ ~circuit_open /\ circuit_open_time # NoTime /\ circuit_failure_count = 0
    /\ \E u \in Users : pc[u] = "idle" /\ result[u] = "blocked_anthropic"

\* The map holds handle b for user u after the step.
StillMapped(u, b) == Has(browsers', u) /\ Get(browsers', u) = b

\* A dispatch starts on a handle that the call has not just created: the one
\* it found in the map at 293, left there by an earlier pass or call.
DispatchOnKeptHandle(u) == DispatchStarts(u) /\ pc[u] # "init_sleep"

\* C32: a handle on which a dispatch has failed is closed and removed from the
\* map before execute_search retries or returns, also when the failure opens a
\* breaker: its close has begun when the failing step ends, the map no longer
\* holds it when the call returns, and a dispatch that starts on a handle kept
\* in the map starts on one whose latest dispatch succeeded.
C32_FailedHandleNeverReused ==
    [][\A u \in Users :
         /\ DispatchFails(u) => agent_browser[u] \notin handles'[u].open
         /\ DispatchFails(u) /\ pc'[u] = "idle" => ~StillMapped(u, agent_browser[u])
         /\ DispatchOnKeptHandle(u) => served[u] = agent_browser'[u]
      ]_vars

\* A breaker goes from Open to Closed in the breaker tests of a starting call.
CooldownReset ==
    /\ CallStarts
    /\ \/ circuit_open /\ ~circuit_open'
       \/ anthropic_circuit_open /\ ~anthropic_circuit_open'

\* A breaker opens, or a failure count rises, only in a step in which a
\* dispatch fails; a count rises by one, and an opening breaker has its count
\* at the threshold or above.
CountsFollowFailures ==
    LET SomeDispatchFails == \E u \in Users : DispatchFails(u)
    IN  /\ anthropic_failures' > anthropic_failures =>
               SomeDispatchFails /\ anthropic_failures' = anthropic_failures + 1
        /\ circuit_failure_count' > circuit_failure_count =>
               SomeDispatchFails /\ circuit_failure_count' = circuit_failure_count + 1
        /\ ~anthropic_circuit_open /\ anthropic_circuit_open' =>
               SomeDispatchFails /\ anthropic_failures' >= anthropic_failure_threshold
        /\ ~circuit_open /\ circuit_open' =>
               SomeDispatchFails /\ circuit_failure_count' >= circuit_reset_threshold

\* C33: after a cooldown-elapsed reset of either breaker no breaker opens
\* before failureThreshold further dispatch failures: counts move only by one
\* per failing dispatch, and the reset leaves every Closed breaker with a
\* count of 0, a full threshold away from opening.
C33_FullThresholdAfterCooldownReset ==
    [][/\ CountsFollowFailures
       /\ CooldownReset =>
            /\ ~anthropic_circuit_open' => anthropic_failures' = 0
            /\ ~circuit_open' => circuit_failure_count' = 0
      ]_vars

\* C34: whenever control can pass between tasks, a breaker that is Open has
\* its opening stamp set and a breaker that is Closed has its failure count
\* strictly below its threshold, for any interleaving of the calls of two
\* users and of reset_circuit_breaker.
C34_BreakerFieldsConsistent ==
    /\ circuit_open => circuit_open_time # NoTime
    /\ anthropic_circuit_open => anthropic_circuit_open_time # NoTime
    /\ ~circuit_open => circuit_failure_count < circuit_reset_threshold
    /\ ~anthropic_circuit_open => anthropic_failures < anthropic_failure_threshold

\* C34's case: after a reset by hand, failures of interleaved calls have
\* opened the provider breaker and left the general count one below its
\* threshold, while a dispatch of some user is still in flight.
C34_Witness ==
    /\ admin_ops > 0
    /\ anthropic_circuit_open /\ ~circuit_open
    /\ circuit_failure_count = circuit_reset_threshold - 1
    /\ \E u \in Users : pc[u] = "dispatch"

\* --------------------------------------------------------- tasks of the service
\* initialize_browser resumes from the sleep that follows the construction,
\* inside execute_search or called on its own: the test of line 158 runs.
InitResumes ==
    \/ \E u \in Users : pc[u] = "init_sleep" /\ pc'[u] # "init_sleep"
    \/ admin.op = "init_sleep" /\ admin'.op # "init_sleep"

\* C35: at most one inactivity-sweep task is ever started, however the
\* initialisations of several users interleave: the flag is never cleared, no
\* task exists while it is clear, the initialisation that finds it clear sets
\* it and starts the task, and one that finds it set leaves the running task
\* as it is.
C35_OneSweepTask ==
    [][/\ inactivity_check_running => inactivity_check_running'
       /\ ~inactivity_check_running => sweep.pc = "off"
       /\ IF InitResumes
          THEN /\ inactivity_check_running'
               /\ sweep' = IF inactivity_check_running THEN sweep ELSE SweepIdle("sleep")
          ELSE sweep.pc = "off" => sweep'.pc = "off"
      ]_vars

\* C35's case: the task started by the first initialisation is closing an idle
\* handle of one user while the other user's call sleeps in initialize_browser.
C35_Witness ==
    /\ inactivity_check_running
    /\ sweep.pc \notin {"off", "sleep"}
    /\ \E u \in Users : pc[u] = "init_sleep" /\ sweep.user # u

\* C36: when execute_search returns, by any of its returns, no keep-alive task
\* of the call is running, and a call in flight has at most one: a task exists
\* only while a dispatch runs, and a dispatch starts its task when the one of
\* the previous attempt is gone.
C36_KeepAliveEndsWithDispatch ==
    [][\A u \in Users :
         /\ pc'[u] = "idle" => keep_alive'[u] = NoTime
         /\ keep_alive'[u] # NoTime => pc'[u] = "dispatch"
         /\ DispatchStarts(u) => keep_alive[u] = NoTime /\ keep_alive'[u] # NoTime
      ]_vars

\* C36's case: a call has returned from a dispatch attempt because a breaker
\* tripped, and its keep-alive task is gone.
C36_Witness ==
    \E u \in Users :
        /\ pc[u] = "idle"
        /\ result[u] \in {"tripped_anthropic", "tripped_general"}
        /\ keep_alive[u] = NoTime

\* ------------------------------------------------- operations on one user
\* Two users call; a dispatch succeeds or fails with an unclassified error, and
\* other tasks invoke cleanup(user_id), force_close_browser(user_id) and
\* extend_timeout(user_id) at any suspension point, with the user_id of
\* Targeted: the second user is the other user of these operations, and each
\* user is the other user of the forced reset of the other's call.  No time
\* passes.
Targeted == {1}

PerUserEnv ==
    [callers |-> Users, outcomes |-> {"success", "fatal"}, shapes |-> {"str"},
     creation |-> {TRUE}]

InitPerUser == Start(PerUserEnv)

NextPerUser ==
    \/ \E u \in Users : ExecStart(u)
    \/ \E u \in Users : ExecLoop(u)
    \/ \E u \in Users : ExecInitResume(u)
    \/ \E u \in Users : DispatchDone(u)
    \/ \E u \in Users : ExecResetClosed(u)
    \/ \E u \in Users : ExecRetry(u)
    \/ \E u \in Targeted : CleanupUser(u)
    \/ \E u \in Targeted : ForceCloseUser(u)
    \/ CloseUserDone
    \/ \E u \in Targeted : ExtendTimeout(u)

SpecPerUser == InitPerUser /\ [][NextPerUser]_vars

\* d.get(k), as a sequence: empty when d has no key k.
Entry(d, k) == IF Has(d, k) THEN <<Get(d, k)>> ELSE <<>>

\* The step leaves the handles, the map entry, the last-activity stamp and the
\* context entry of every user but u as they are.
OthersUntouched(u) ==
    \A v \in Users \ {u} :
        /\ handles'[v] = handles[v]
        /\ Entry(browsers', v) = Entry(browsers, v)
        /\ Entry(last_activity_times', v) = Entry(last_activity_times, v)
        /\ Entry(current_contexts', v) = Entry(current_contexts, v)

\* C37: cleanup(user_id=u), force_close_browser(user_id=u), extend_timeout(u)
\* and the forced reset of a failing execute_search of u, in each of their
\* steps, leave the handle, the last-activity stamp and the context entry of
\* every other user unchanged.
C37_OtherUsersUntouched ==
    [][/\ admin_ops' # admin_ops =>
            OthersUntouched(IF admin'.op # "none" THEN admin'.user ELSE op_result'.user)
       /\ admin.op # "none" /\ admin' # admin => OthersUntouched(admin.user)
       /\ \A u \in Users :
            \/ DispatchFails(u)
            \/ pc[u] = "reset_close" /\ pc'[u] # "reset_close"
            => OthersUntouched(u)
      ]_vars

\* C37's case: cleanup or force_close_browser has removed the entries of one
\* user while the other user has a live handle and a last-activity stamp.
C37_Witness ==
    \E u \in Users : \E v \in Users \ {u} :
        /\ op_result.op \in {"cleanup_user", "force_user"} /\ op_result.user = u
        /\ op_result.close # "none"
        /\ ~HasBrowser(u) /\ ~Has(last_activity_times, u)
        /\ HasBrowser(v) /\ Has(last_activity_times, v)

\* --------------------------------------- execute_search, failure classes
\* The text of an exception of agent.run is a sequence of phrases; a term of
\* the handler is in the text when it is one of its phrases.
ErrorPhrases ==
    {"Rate limit", "rate limit", "capacity", "too many requests", "429", "502",
     "503", "504", "Overloaded", "overloaded", "timeout", "connection", "network",
     "socket", "executable doesn't exist", "please run the following command",
     "failed"}

MaxPhrases == 2

ErrorTexts == UNION {[1 .. n -> ErrorPhrases] : n \in 1 .. MaxPhrases}

\* str.lower() of one phrase
LowerPhrase(p) ==
    CASE p = "Rate limit" -> "rate limit"
      [] p = "Overloaded" -> "overloaded"
      [] OTHER -> p

\* The elif chain of the handler (350-419): the class of an exception, and what
\* its branch adds to _anthropic_failures.
ErrorClass(e) ==
    LET error_str == [i \in DOMAIN e |-> LowerPhrase(e[i])]
        In(term) == \E i \in DOMAIN error_str : error_str[i] = term
        class ==
            IF In("executable doesn't exist") \/ In("please run the following command")
            THEN "install"
            ELSE IF \E term \in {"overloaded", "502", "too many requests", "rate limit"} :
                        In(term)
            THEN "overload"
            ELSE IF \E term \in {"timeout", "connection", "network", "socket"} : In(term)
            THEN "transient"
            ELSE "fatal"
    IN  <<class, IF class = "overload" THEN 1 ELSE 0>>

InitClassify ==
    /\ Construction(NoCallers)
    /\ calc \in {[fn |-> "classify", e |-> e, done |-> FALSE, out |-> None] :
                    e \in ErrorTexts}

Classify ==
    /\ calc.fn = "classify"
    /\ ~calc.done
    /\ calc' = [calc EXCEPT !.done = TRUE, !.out = ErrorClass(calc.e)]
    /\ UNCHANGED serviceVars

SpecClassify == InitClassify /\ [][Classify]_vars

\* C38: a failure whose text contains one of the overload markers rate limit,
\* capacity, too many requests, 429, 502, 503 or 504 is classified as an
\* overload and adds one to the provider breaker's failure count.
C38_MarkersMeanOverload ==
    (calc.fn = "classify" /\ calc.done)
        => ((\E i \in DOMAIN calc.e :
                LowerPhrase(calc.e[i]) \in {"rate limit", "capacity", "too many requests",
                                            "429", "502", "503", "504"})
              => calc.out = <<"overload", 1>>)

\* C39: referenced_item and named_entity are never both set, and a query with
\* a reference indicator has no named entity, whether or not its reference is
\* resolved to an item.
C39_ReferenceExcludesNamedEntity ==
    (calc.fn = "prompt" /\ calc.done)
        => /\ calc.out.referenced_item = None \/ calc.out.named_entity = None
           /\ (\E indicator \in reference_indicators :
                    Contains(Lower(calc.args.query), indicator))
                => calc.out.named_entity = None

\* C39's case: the query has a reference indicator and names a restaurant
\* that the assistant has emphasised, no item is resolved, and no named entity
\* is set.
C39_Witness ==
    /\ Prompted(NamedReferenceInputs)
    /\ \E j \in DOMAIN calc.args.query :
           \E i \in DOMAIN RestaurantMentions(calc.args.history) :
               calc.args.query[j].w = RestaurantMentions(calc.args.history)[i]
    /\ calc.out.referenced_item = None
    /\ calc.out.named_entity = None

\* C40: for a reference query the list is that of the most recent assistant
\* turn that has a numbered or bulleted list of emphasised items; a later
\* assistant turn without a list is passed over, and the item at the resolved
\* index of that list is the referenced item.
C40_MostRecentListUsed ==
    Prompted(EarlierListInputs \cup ReferenceInputs)
        => LET messages == AssistantMessages(calc.args.history, <<>>, <<>>, FALSE)
               listed == {i \in DOMAIN messages : NumberedItems(messages[i]) # <<>>}
               index == ItemIndex(calc.args.query)
           IN  (listed # {} /\ index # None)
                 => LET items == NumberedItems(messages[Rightmost(listed)])
                    IN  (0 <= index[1] /\ index[1] < Len(items))
                          => calc.out.referenced_item = <<items[index[1] + 1]>>

=============================================================================
